---- MODULE Spec2Model ----
(***************************************************************************)
(* A model of secfeed's feed fetcher (pkg/feed), its consumer loop         *)
(* (cmd/secfeed) and the cancellation handler (pkg/signal).                *)
(*                                                                         *)
(* Two specifications share the definitions translated from the source:    *)
(*   SpecCollect  any sequence of Feed.collectFeed calls on any parsed     *)
(*                feed documents, with what each call returned;            *)
(*   Spec         the running pipeline: Feed.fetchFeeds, the consumer      *)
(*                goroutine of start(), wg.Wait() in start() and the       *)
(*                signal goroutine of SetupHandler.                        *)
(***************************************************************************)
EXTENDS Integers, Sequences, FiniteSets, TLC

\* ------------------------------------------------------------------ bounds
MaxTime == 3      \* timestamps are 0..MaxTime
MaxItems == 2     \* entries in one parsed feed document in SpecCollect
MaxPolls == 2     \* collectFeed calls in SpecCollect
MaxEntries == 1   \* entries in one parsed feed document in Spec
MaxCycles == 2    \* poll cycles of fetchFeeds in Spec
MaxFeeds == 2     \* configured sources in SpecNew
MaxSent == 2      \* entries of a feed document in SpecStream
MaxModels == 2    \* models given to ollama.NewClient in SpecOllama
MaxScores == 2    \* objects in the JSON array of a completion in SpecClassify
MaxCategories == 2 \* configured categories in SpecClassify
MaxCalls == 2     \* calls made on one OpenAI client in SpecCost
MaxTokens == 1    \* largest token count a response reports in SpecCost
MaxEnriched == 2  \* entries of the feed document in SpecEnrich
MaxTexts == 3     \* texts of one CreateEmbeddings call in SpecEmbed
MaxLen == 6       \* characters of the text in SpecChunk
MaxChunk == 4     \* largest chunkSize in SpecChunk
MaxChunks == 3    \* chunks of a long article in SpecEncode

\* time.Now().Add(-initPull), the seed of every watermark
InitFrom == 1

\* cfg.RssFeed: the configured sources, in configuration order
rssFeeds == <<"feedA", "feedB">>

Urls == {rssFeeds[i] : i \in 1..Len(rssFeeds)}
Times == 0..MaxTime

\* --------------------------------------------------------- feed documents
\* gofeed.Item as the watermark logic of collectFeed reads it: PublishedParsed
\* (a *time.Time: <<>> is nil, <<t>> points to t) and Published (the raw date
\* string: its layout, and the instant it spells). An entry is identified by
\* its Published time within its feed.
CrowdStrikeLayout == "Jan 2, 2006 15:04:05-0700"

\* The raw date strings tried: one in the CrowdStrike layout for the seed of
\* the watermarks and one for the latest time, and one that spells the latest
\* time in another layout.
PublishedStrings ==
    [layout : {CrowdStrikeLayout}, t : {InitFrom, MaxTime}]
    \cup {[layout |-> "other", t |-> MaxTime]}

\* An entry the parser dated (its raw string is then never read), or one it
\* left undated with any of the raw strings.
Items ==
    [PublishedParsed : {<<t>> : t \in Times},
     Published : {[layout |-> "other", t |-> 0]}]
    \cup [PublishedParsed : {<<>>}, Published : PublishedStrings]

RECURSIVE SeqsUpTo(_, _)
SeqsUpTo(S, n) ==
    IF n = 0 THEN {<<>>}
    ELSE LET shorter == SeqsUpTo(S, n - 1)
         IN  shorter \cup {Append(s, x) : s \in {q \in shorter : Len(q) = n - 1}, x \in S}

\* The Items of a feed that feedParser.ParseURL parsed.
Documents == SeqsUpTo(Items, MaxItems)

\* The same for the pipeline, where fewer entries per document are tried.
CycleDocuments == SeqsUpTo(Items, MaxEntries)

TimeParseAnyLayout(s) == [ok |-> TRUE, t |-> s.t]

\* time.Parse("Jan 2, 2006 15:04:05-0700", s)
TimeParse(s) ==
    IF s.layout = CrowdStrikeLayout THEN [ok |-> TRUE, t |-> s.t]
    ELSE [ok |-> FALSE, t |-> 0]

\* collectFeed, lines 102-113: the entry's Published time, or none (continue)
ItemPublished(item) ==
    IF item.PublishedParsed # <<>>
    THEN [ok |-> TRUE, t |-> item.PublishedParsed[1]]
    ELSE TimeParse(item.Published)

AfterNotEqual(t, u) == t # u

AfterOrEqual(t, u) == t >= u

\* time.Time.After
After(t, u) == t > u

\* collectFeed, lines 91-127: the articles kept from the items, in feed order.
\* Only Published is modelled: enrichArticleItem does not change it.
RECURSIVE KeptArticles(_, _)
KeptArticles(items, lastItem) ==
    IF items = <<>> THEN <<>>
    ELSE LET item == Head(items)
             p == ItemPublished(item)
             rest == KeptArticles(Tail(items), lastItem)
         IN  IF p.ok /\ After(p.t, lastItem)
             THEN <<[Published |-> p.t]>> \o rest
             ELSE rest

NewWatermarkRewind(articles, lastItem) ==
    IF Len(articles) > 0 THEN articles[1].Published ELSE 0

NewWatermarkLast(articles, lastItem) ==
    IF Len(articles) > 0 THEN articles[Len(articles)].Published ELSE lastItem

\* collectFeed, lines 129-137: the watermark after the poll
NewWatermark(articles, lastItem) ==
    IF Len(articles) > 0 THEN articles[1].Published ELSE lastItem

\* Every entry is undated, or dated at or before the watermark.
NoNewEntry(items, lastItem) ==
    \A i \in 1..Len(items) :
        \/ ~ItemPublished(items[i]).ok
        \/ ItemPublished(items[i]).t <= lastItem

Range(s) == {s[i] : i \in 1..Len(s)}

Max(S) == CHOOSE x \in S : \A y \in S : y <= x

\* ---------------------------------------------------------- classification
\* llm.classification.threshold of the example configuration
Threshold == 8

\* cfg.Categories
categories == <<"Ransomware">>

\* The JSON text of a completion: not valid JSON, or an array of
\* {category, relevance} objects.
JsonTexts ==
    {[valid |-> FALSE, scores |-> <<>>]}
    \cup {[valid |-> TRUE, scores |-> r] :
            r \in SeqsUpTo([Category : Range(categories),
                            Relevance : {Threshold - 1, Threshold}], 1)}

\* What the provider answers to one chat-completion request: the call fails,
\* or the response holds no choice, or its first choice holds a text.
Completions ==
    {[kind |-> k, text |-> [valid |-> FALSE, scores |-> <<>>]] :
        k \in {"error", "noChoices"}}
    \cup {[kind |-> "text", text |-> t] : t \in JsonTexts}

\* openai.Client.ChatCompletion: an error, resp.Choices[0].Message.Content, or
\* the index-out-of-range panic of Choices[0] on an empty Choices
ChatCompletion(resp) ==
    IF resp.kind = "error" THEN [outcome |-> "err", value |-> resp.text]
    ELSE IF resp.kind = "noChoices" THEN [outcome |-> "panic", value |-> resp.text]
    ELSE [outcome |-> "ok", value |-> resp.text]

CategoryMatchingWithLLMPartial(tooLong, resp) ==
    IF tooLong THEN [outcome |-> "err", value |-> <<>>]
    ELSE IF resp.kind = "error" THEN [outcome |-> "err", value |-> <<>>]
    ELSE IF resp.kind = "noChoices" THEN [outcome |-> "panic", value |-> <<>>]
    ELSE [outcome |-> "ok", value |-> resp.text.scores]

\* llm.Client.CategoryMatchingWithLLM: tooLong is
\* len(systemPrompt)+len(userPrompt) > llmInputMaxTextLength
CategoryMatchingWithLLM(tooLong, resp) ==
    IF tooLong THEN [outcome |-> "err", value |-> <<>>]
    ELSE LET c == ChatCompletion(resp)
         IN  IF c.outcome # "ok" THEN [outcome |-> c.outcome, value |-> <<>>]
             ELSE IF ~c.value.valid THEN [outcome |-> "err", value |-> <<>>]
             ELSE [outcome |-> "ok", value |-> c.value.scores]

classifyWithLLMAbove(threshold, tooLong, resp) ==
    LET m == CategoryMatchingWithLLM(tooLong, resp)
    IN  IF m.outcome # "ok" THEN m
        ELSE [outcome |-> "ok",
              value |-> SelectSeq(m.value, LAMBDA x : x.Relevance > threshold)]

\* ClassificationEngine.classifyWithLLM, lines 81-103
classifyWithLLM(threshold, tooLong, resp) ==
    LET m == CategoryMatchingWithLLM(tooLong, resp)
    IN  IF m.outcome # "ok" THEN m
        ELSE [outcome |-> "ok",
              value |-> SelectSeq(m.value, LAMBDA x : x.Relevance >= threshold)]

\* ClassificationEngine.Classify of the engine the pipeline runs: the LLM
\* strategy with the threshold of the example configuration
Classify(tooLong, resp) == classifyWithLLM(Threshold, tooLong, resp)

\* A float32 score (a similarity, a relevance, a threshold) is counted in
\* thousandths; NaN is kept apart. The vectors tried have integral norms, so
\* that the arithmetic below is exact.
Unit == 1000

NaN == [nan |-> TRUE, v |-> 0]

F32(v) == [nan |-> FALSE, v |-> v]

\* x >= y on float32, false when x is NaN
GE(x, y) == ~x.nan /\ x.v >= y

RECURSIVE Dot(_, _)
Dot(a, b) == IF a = <<>> THEN 0 ELSE Head(a) * Head(b) + Dot(Tail(a), Tail(b))

\* math.Sqrt on a perfect square
Sqrt(n) == CHOOSE r \in 0..n : r * r = n

\* cosineSimilarity, lines 137-149: -1 on vectors of different lengths, 0/0
\* (NaN) when a norm is zero
cosineSimilarity(a, b) ==
    IF Len(a) # Len(b) THEN F32(-Unit)
    ELSE LET den == Sqrt(Dot(a, a)) * Sqrt(Dot(b, b))
         IN  IF den = 0 THEN NaN ELSE F32((Unit * Dot(a, b)) \div den)

\* `relevance := sim * 10` (line 115)
RelevanceOf(sim) == IF sim.nan THEN NaN ELSE F32(sim.v * 10)

\* ClassificationEngine.classifyWithEmbeddings, lines 105-133: enc is what
\* EncodeArticle returned, order the order in which `range c.encCategories`
\* happens to iterate over the keys of the map
classifyWithEmbeddings(threshold, encCategories, order, enc) ==
    IF enc.err # <<>> THEN [outcome |-> "err", value |-> <<>>]
    ELSE LET scored ==
                 [i \in 1..Len(order) |->
                     [Category |-> order[i],
                      Relevance |->
                          RelevanceOf(cosineSimilarity(enc.vec, encCategories[order[i]]))]]
         IN  [outcome |-> "ok",
              value |-> SelectSeq(scored, LAMBDA x : GE(x.Relevance, threshold))]

\* llm.Client.Summarize
Summarize(tooLong, resp) ==
    IF tooLong THEN [outcome |-> "err"]
    ELSE [outcome |-> ChatCompletion(resp).outcome]

AfterClassifyReturn(result) ==
    IF result.outcome = "panic" THEN "panicking"
    ELSE IF result.outcome = "err" THEN "returned"
    ELSE IF Len(result.value) > 0 THEN "summarize"
    ELSE "select"

AfterClassifySummarizesAll(result) ==
    IF result.outcome = "panic" THEN "panicking"
    ELSE IF result.outcome = "err" THEN "select"
    ELSE "summarize"

\* start(), lines 339-349: where the consumer goes after Classify returned
\* (panicking: the panic unwinds to the deferred function)
AfterClassify(result) ==
    IF result.outcome = "panic" THEN "panicking"
    ELSE IF result.outcome = "err" THEN "select"
    ELSE IF Len(result.value) > 0 THEN "summarize"
    ELSE "select"

\* start(), lines 350-365: after Summarize returned, both outcomes lead back
\* to the select unless it panicked
AfterSummarize(result) ==
    IF result.outcome = "panic" THEN "panicking" ELSE "select"

\* ------------------------------------------------------------ construction
\* An error is the chain of its messages, outermost first (fmt.Errorf with
\* %w); <<>> is nil. A pointer is <<>> (nil) or <<v>>.
Wrap(msg, err) == <<msg>> \o err

\* The HTTP status loadModel accepts (part_000, line 113)
StatusOK == 200

\* The answers to a load request: the call fails; a status other than 200;
\* status 200 with a body that is no JSON; status 200 with another done
\* reason; status 200 with done reason "load".
LoadReplies ==
    {[err |-> TRUE, StatusCode |-> 0, decodes |-> FALSE, DoneReason |-> ""],
     [err |-> FALSE, StatusCode |-> 500, decodes |-> TRUE, DoneReason |-> "load"],
     [err |-> FALSE, StatusCode |-> StatusOK, decodes |-> FALSE, DoneReason |-> ""],
     [err |-> FALSE, StatusCode |-> StatusOK, decodes |-> TRUE, DoneReason |-> "stop"],
     [err |-> FALSE, StatusCode |-> StatusOK, decodes |-> TRUE, DoneReason |-> "load"]}

loadModelAnyReason(reply) ==
    IF reply.err THEN <<"failed to call ollama completion API">>
    ELSE IF reply.StatusCode # StatusOK THEN <<"request failed with status code">>
    ELSE IF ~reply.decodes THEN <<"failed to parse ChatCompletionResponse">>
    ELSE <<>>

\* ollama Client.loadModel, lines 81-130: the error it returns for a reply
loadModel(reply) ==
    IF reply.err THEN <<"failed to call ollama completion API">>
    ELSE IF reply.StatusCode # StatusOK THEN <<"request failed with status code">>
    ELSE IF ~reply.decodes THEN <<"failed to parse ChatCompletionResponse">>
    ELSE IF reply.DoneReason # "load"
         THEN <<"model load failed with different done reason">>
    ELSE <<>>

\* ollama.NewClient, lines 41-45: the loop from the i-th model on, where the
\* i-th load request is answered by replies[i]; `requested` counts the load
\* requests made
RECURSIVE LoadModels(_, _, _)
LoadModels(models, replies, i) ==
    IF i > Len(models) THEN [err |-> <<>>, requested |-> i - 1]
    ELSE LET err == loadModel(replies[i])
         IN  IF err # <<>>
             THEN [err |-> Wrap("failed to load model", err), requested |-> i]
             ELSE LoadModels(models, replies, i + 1)

\* ollama.NewClient, lines 30-48
OllamaNewClient(models, replies) ==
    LET loaded == LoadModels(models, replies, 1)
    IN  [client |-> IF loaded.err = <<>> THEN <<"ollama">> ELSE <<>>,
         err |-> loaded.err,
         requested |-> loaded.requested]

\* openai.NewClient, lines 86-98
OpenAINewClient(apiKey) ==
    IF apiKey = ""
    THEN [client |-> <<>>, err |-> <<"OPENAI_API_KEY environment variable is not set">>]
    ELSE [client |-> <<"openai">>, err |-> <<>>]

\* cfg.LLM.Classification.Model and cfg.LLM.Summary.Model
modelClsLLM == "llama3.2"

modelSummary == "mistral"

\* llm.NewClient, lines 666-691
LLMNewClient(llmType, apiKey, replies) ==
    IF llmType = "openai"
    THEN LET c == OpenAINewClient(apiKey)
         IN  IF c.err # <<>>
             THEN [client |-> <<>>, err |-> Wrap("failed to create OpenAI client", c.err)]
             ELSE [client |-> c.client, err |-> <<>>]
    ELSE IF llmType = "ollama"
    THEN LET c == OllamaNewClient(<<modelClsLLM, modelSummary>>, replies)
         IN  IF c.err # <<>>
             THEN [client |-> <<>>, err |-> Wrap("failed to create Ollama client", c.err)]
             ELSE [client |-> c.client, err |-> <<>>]
    ELSE [client |-> <<>>, err |-> <<"unsupported LLM client">>]

\* An embedding vector
Vectors == {<<1>>}

\* The answers of the OpenAI embeddings API to a request for the categories:
\* an error, or Data with up to one vector per category.
EmbeddingResponses ==
    {[err |-> TRUE, Data |-> <<>>]}
    \cup [err : {FALSE}, Data : SeqsUpTo(Vectors, Len(categories))]

OpenAICreateEmbeddingsUnchecked(texts, resp) ==
    IF resp.err THEN [embeddings |-> <<>>, err |-> <<"embeddings API error">>]
    ELSE [embeddings |-> resp.Data, err |-> <<>>]

\* openai Client.CreateEmbeddings, lines 136-160
OpenAICreateEmbeddings(texts, resp) ==
    IF resp.err THEN [embeddings |-> <<>>, err |-> <<"embeddings API error">>]
    ELSE IF Len(resp.Data) # Len(texts)
    THEN [embeddings |-> <<>>,
          err |-> <<"number of embeddings returned does not match number of texts">>]
    ELSE [embeddings |-> resp.Data, err |-> <<>>]

OllamaCreateEmbeddingsEmpty(texts) == [embeddings |-> <<>>, err |-> <<>>]

\* ollama Client.CreateEmbeddings, lines 209-211
OllamaCreateEmbeddings(texts) ==
    [embeddings |-> <<>>, err |-> <<"not implemented">>]

\* strings.ToLower on the category names
ToLower(name) ==
    IF name = "Ransomware" THEN "ransomware"
    ELSE IF name = "Phishing" THEN "phishing"
    ELSE name

\* llm Client.EncodeCategories, lines 816-841, on the client `client` points to
EncodeCategories(client, cats, resp) ==
    LET texts == [i \in 1..Len(cats) |-> ToLower(cats[i])]
        r == IF client = <<"ollama">> THEN OllamaCreateEmbeddings(texts)
             ELSE OpenAICreateEmbeddings(texts, resp)
    IN  IF r.err # <<>>
        THEN [encCategories |-> <<>>,
              err |-> Wrap("failed to get embeddings for categories", r.err)]
        ELSE IF Len(r.embeddings) # Len(cats)
        THEN [encCategories |-> <<>>,
              err |-> <<"number of embeddings returned does not match number of categories">>]
        ELSE [encCategories |->
                  [name \in Range(cats) |->
                      r.embeddings[CHOOSE i \in 1..Len(cats) :
                                      /\ cats[i] = name
                                      /\ \A j \in 1..Len(cats) : cats[j] = name => j <= i]],
              err |-> <<>>]

\* classification.New, lines 49-69
ClassificationNew(classificationType, client, cats, resp) ==
    IF classificationType = "embeddings"
    THEN LET enc == EncodeCategories(client, cats, resp)
         IN  IF enc.err # <<>>
             THEN [engine |-> <<>>,
                   err |-> Wrap("failed to get embeddings for categories", enc.err)]
             ELSE [engine |-> <<[clsType |-> classificationType,
                                 encCategories |-> enc.encCategories]>>,
                   err |-> <<>>]
    ELSE [engine |-> <<[clsType |-> classificationType, encCategories |-> <<>>]>>,
          err |-> <<>>]

SlackNewUnchecked(webhook) == [client |-> <<"slack">>, err |-> <<>>]

\* slack.New, lines 20-30
SlackNew(webhook) ==
    IF webhook = ""
    THEN [client |-> <<>>, err |-> <<"SLACK_WEBHOOK_URL environment variable is not set">>]
    ELSE [client |-> <<"slack">>, err |-> <<>>]

\* config.New, lines 97-110, on a file that is missing, is no YAML, or is valid
ConfigNew(configFile) ==
    IF configFile = "missing" THEN <<"reading config file">>
    ELSE IF configFile = "malformed" THEN <<"parsing config file">>
    ELSE <<>>

\* ------------------------------------------------------------------- state
VARIABLES
    lastItemPerFeed,  \* Feed.lastItemPerFeed: url -> watermark
    \* SpecCollect: the latest collectFeed call
    polled,           \* [url, err, empty, noNew]: its source, whether
                      \* ParseURL failed, whether the feed had no entry, and
                      \* whether no entry was dated after the watermark
    returned,         \* [err, articles]: what it returned
    lastKept,         \* url -> the articles the latest poll of url returned
    accepted,         \* url -> the Published times of all articles ever returned
    polls,            \* number of collectFeed calls made
    \* Spec: the fetchFeeds goroutine
    fetcherPc,        \* "idle" | "collect" | "send" | "tick" | "returned"
    feedIdx,          \* collect: index in rssFeeds of the source polled next
    articles,         \* collect's articles, then the ones fetchFeeds sends
    cycle,            \* number of collect calls started
    pollsInCycle,     \* the sources collectFeed was called on in this cycle
    owed,             \* articles collectFeed kept that were not received yet
    \* Spec: the consumer goroutine of start()
    consumerPc,       \* "select" | "classify" | "summarize" | "panicking"
                      \* | "dead" | "returned"
    article,          \* the article received last (`article` of line 331)
    handled,          \* what happened to the article received last
    panicCause,       \* "none" | "article" | "waitgroup"
    \* Spec: the process
    ctxDone,          \* the context of SetupHandler is cancelled
    signals,          \* interrupts received by the signal goroutine
    wgCount,          \* the WaitGroup counter
    proc,             \* "running" | "exited" | "killed" | "crashed"
    \* the specifications of one call: what the call is given, what it gives
    input,
    output

collectVars == <<polled, returned, lastKept, accepted, polls>>

fetcherVars == <<fetcherPc, feedIdx, articles, cycle, pollsInCycle, owed>>

consumerVars == <<consumerPc, article, handled, panicCause>>

processVars == <<ctxDone, signals, wgCount, proc>>

callVars == <<input, output>>

vars == <<lastItemPerFeed, collectVars, fetcherVars, consumerVars, processVars,
          callVars>>

NewSeedsNow(cfgRssFeed, now, initPull) ==
    [rssFeeds |-> cfgRssFeed,
     lastItemPerFeed |-> [u \in {cfgRssFeed[i] : i \in 1..Len(cfgRssFeed)} |-> now]]

\* feed.New, lines 40-55: the Feed built from cfg.RssFeed at time `now`
New(cfgRssFeed, now, initPull) ==
    LET initFrom == now - initPull
    IN  [rssFeeds |-> cfgRssFeed,
         lastItemPerFeed |->
             [u \in {cfgRssFeed[i] : i \in 1..Len(cfgRssFeed)} |-> initFrom]]

\* cfg.InitPullInDays of the run the pipeline models
InitPull == 1

\* The watermarks of the Feed the pipeline runs: it is constructed at
\* InitFrom + InitPull.
NewWatermarks == New(rssFeeds, InitFrom + InitPull, InitPull).lastItemPerFeed

NotHandled ==
    [afterFailure |-> FALSE, clsFailed |-> FALSE, sumFailed |-> FALSE,
     summarized |-> FALSE, reported |-> FALSE]

NoArticle == [feed |-> "none", Published |-> 0, cycle |-> 0, seq |-> 0]

NoCall == [call |-> "none"]

CollectInit ==
    /\ polled = [url |-> rssFeeds[1], err |-> FALSE, empty |-> TRUE, noNew |-> TRUE]
    /\ returned = [err |-> FALSE, articles |-> <<>>]
    /\ lastKept = [u \in Urls |-> <<>>]
    /\ accepted = [u \in Urls |-> {}]
    /\ polls = 0

FetcherInit ==
    /\ fetcherPc = "idle"
    /\ feedIdx = 1
    /\ articles = <<>>
    /\ cycle = 0
    /\ pollsInCycle = {}
    /\ owed = {}

ConsumerInit ==
    /\ consumerPc = "select"
    /\ article = NoArticle
    /\ handled = NotHandled
    /\ panicCause = "none"

ProcessInit ==
    /\ ctxDone = FALSE
    /\ signals = 0
    /\ wgCount = 1
    /\ proc = "running"

\* start() up to feed.Start(): the feed is constructed, the WaitGroup holds
\* one and the consumer goroutine waits in its select
Init ==
    /\ lastItemPerFeed = NewWatermarks
    /\ CollectInit
    /\ FetcherInit
    /\ ConsumerInit
    /\ ProcessInit
    /\ input = NoCall
    /\ output = NoCall

InitCollect == Init

\* ------------------------------------------------- SpecCollect: collectFeed
CollectFeedErrorResets(u) ==
    /\ polls < MaxPolls
    /\ polls' = polls + 1
    /\ polled' = [url |-> u, err |-> TRUE, empty |-> TRUE, noNew |-> TRUE]
    /\ returned' = [err |-> TRUE, articles |-> <<>>]
    /\ lastKept' = [lastKept EXCEPT ![u] = <<>>]
    /\ lastItemPerFeed' = [lastItemPerFeed EXCEPT ![u] = InitFrom]
    /\ UNCHANGED accepted
    /\ UNCHANGED <<fetcherVars, consumerVars, processVars>>
    /\ UNCHANGED callVars

\* collectFeed when ParseURL fails, lines 84-87
CollectFeedError(u) ==
    /\ polls < MaxPolls
    /\ polls' = polls + 1
    /\ polled' = [url |-> u, err |-> TRUE, empty |-> TRUE, noNew |-> TRUE]
    /\ returned' = [err |-> TRUE, articles |-> <<>>]
    /\ lastKept' = [lastKept EXCEPT ![u] = <<>>]
    /\ UNCHANGED <<lastItemPerFeed, accepted>>
    /\ UNCHANGED <<fetcherVars, consumerVars, processVars>>
    /\ UNCHANGED callVars

CollectFeedOkAll(u, items) ==
    LET kept == KeptArticles(items, lastItemPerFeed[u])
    IN  /\ polls < MaxPolls
        /\ polls' = polls + 1
        /\ polled' = [url |-> u, err |-> FALSE, empty |-> (items = <<>>),
                      noNew |-> NoNewEntry(items, lastItemPerFeed[u])]
        /\ returned' = [err |-> FALSE, articles |-> kept]
        /\ lastItemPerFeed' =
               [v \in Urls |-> NewWatermark(kept, lastItemPerFeed[v])]
        /\ lastKept' = [lastKept EXCEPT ![u] = kept]
        /\ accepted' =
               [accepted EXCEPT ![u] = @ \cup {a.Published : a \in Range(kept)}]
        /\ UNCHANGED <<fetcherVars, consumerVars, processVars>>
        /\ UNCHANGED callVars

\* collectFeed when ParseURL succeeds, lines 89-139
CollectFeedOk(u, items) ==
    LET kept == KeptArticles(items, lastItemPerFeed[u])
    IN  /\ polls < MaxPolls
        /\ polls' = polls + 1
        /\ polled' = [url |-> u, err |-> FALSE, empty |-> (items = <<>>),
                      noNew |-> NoNewEntry(items, lastItemPerFeed[u])]
        /\ returned' = [err |-> FALSE, articles |-> kept]
        /\ lastItemPerFeed' =
               [lastItemPerFeed EXCEPT ![u] = NewWatermark(kept, @)]
        /\ lastKept' = [lastKept EXCEPT ![u] = kept]
        /\ accepted' =
               [accepted EXCEPT ![u] = @ \cup {a.Published : a \in Range(kept)}]
        /\ UNCHANGED <<fetcherVars, consumerVars, processVars>>
        /\ UNCHANGED callVars

NextCollect ==
    \E u \in Urls :
        \/ CollectFeedError(u)
        \/ \E items \in Documents : CollectFeedOk(u, items)

SpecCollect == InitCollect /\ [][NextCollect]_vars

\* --------------------------------------- SpecPoll: one call of collectFeed
\* One call with the parsed document in view: the source, whether ParseURL
\* fails, the Items it parsed, and the watermarks when the call begins (the
\* seed, or the Published time of an article kept before).
PollInputs ==
    [url : Urls, err : BOOLEAN, items : Documents,
     lastItemPerFeed : [Urls -> InitFrom..MaxTime]]

InitPoll ==
    /\ input \in PollInputs
    /\ lastItemPerFeed = input.lastItemPerFeed
    /\ CollectInit
    /\ FetcherInit
    /\ ConsumerInit
    /\ ProcessInit
    /\ output = NoCall

CollectFeedFails ==
    /\ polls = 0
    /\ input.err
    /\ CollectFeedError(input.url)

CollectFeedReturns ==
    /\ polls = 0
    /\ ~input.err
    /\ CollectFeedOk(input.url, input.items)

NextPoll == CollectFeedFails \/ CollectFeedReturns

SpecPoll == InitPoll /\ [][NextPoll]_vars

\* ------------------------------------------------------- SpecNew: feed.New
\* One call of feed.New: cfg.RssFeed (the same URL may be configured twice),
\* the time of the call and initPull.
FeedUrls == {"feedA", "feedB", "feedC"}

NewInputs ==
    [RssFeed : SeqsUpTo(FeedUrls, MaxFeeds), now : Times, initPull : Times]

InitNew ==
    /\ input \in NewInputs
    /\ output = NoCall
    /\ lastItemPerFeed = NewWatermarks
    /\ CollectInit
    /\ FetcherInit
    /\ ConsumerInit
    /\ ProcessInit

FeedNew ==
    /\ output = NoCall
    /\ output' = New(input.RssFeed, input.now, input.initPull)
    /\ UNCHANGED <<lastItemPerFeed, input>>
    /\ UNCHANGED <<collectVars, fetcherVars, consumerVars, processVars>>

NextNew == FeedNew

SpecNew == InitNew /\ [][NextNew]_vars

\* ------------------------------------------------------ Spec: the pipeline
\* The articles collectFeed returned as they go on the stream, each with the
\* source it came from, the poll cycle that kept it and its place among the
\* articles of that poll.
FromFeed(u, kept, c) ==
    [i \in 1..Len(kept) |->
        [feed |-> u, Published |-> kept[i].Published, cycle |-> c, seq |-> i]]

\* feed.Start(): go f.fetchFeeds(), which calls collect() first (line 145)
Start ==
    /\ proc = "running"
    /\ fetcherPc = "idle"
    /\ fetcherPc' = "collect"
    /\ feedIdx' = 1
    /\ articles' = <<>>
    /\ cycle' = 1
    /\ pollsInCycle' = {}
    /\ UNCHANGED <<lastItemPerFeed, owed, collectVars, consumerVars, processVars>>
    /\ UNCHANGED callVars

\* collect(), lines 68-72: collectFeed fails on the next source, collect
\* returns (nil, err); fetchFeeds returns after the first collect (lines
\* 146-149) and waits for the next tick after a later one (lines 160-163)
CollectFails ==
    /\ proc = "running"
    /\ fetcherPc = "collect"
    /\ pollsInCycle' = pollsInCycle \cup {rssFeeds[feedIdx]}
    /\ articles' = <<>>
    /\ fetcherPc' = IF cycle = 1 THEN "returned" ELSE "tick"
    /\ UNCHANGED <<lastItemPerFeed, feedIdx, cycle, owed>>
    /\ UNCHANGED <<collectVars, consumerVars, processVars>>
    /\ UNCHANGED callVars

\* collect(), lines 68-77: collectFeed succeeds on the next source; after the
\* last source collect returns and fetchFeeds starts sending (lines 152, 166)
CollectSucceeds(items) ==
    LET u == rssFeeds[feedIdx]
        kept == KeptArticles(items, lastItemPerFeed[u])
        all == articles \o FromFeed(u, kept, cycle)
    IN  /\ proc = "running"
        /\ fetcherPc = "collect"
        /\ lastItemPerFeed' =
               [lastItemPerFeed EXCEPT ![u] = NewWatermark(kept, @)]
        /\ pollsInCycle' = pollsInCycle \cup {u}
        /\ owed' = owed \cup Range(FromFeed(u, kept, cycle))
        /\ articles' = all
        /\ IF feedIdx < Len(rssFeeds)
           THEN feedIdx' = feedIdx + 1 /\ fetcherPc' = "collect"
           ELSE feedIdx' = feedIdx
                /\ fetcherPc' = IF all = <<>> THEN "tick" ELSE "send"
        /\ UNCHANGED <<cycle, collectVars, consumerVars, processVars>>
        /\ UNCHANGED callVars

\* fetchFeeds, `for range ticker.C` (line 158): the next tick starts collect
Tick ==
    /\ proc = "running"
    /\ fetcherPc = "tick"
    /\ cycle < MaxCycles
    /\ cycle' = cycle + 1
    /\ fetcherPc' = "collect"
    /\ feedIdx' = 1
    /\ articles' = <<>>
    /\ pollsInCycle' = {}
    /\ UNCHANGED <<lastItemPerFeed, owed, collectVars, consumerVars, processVars>>
    /\ UNCHANGED callVars

ReceiveLast ==
    /\ proc = "running"
    /\ fetcherPc = "send"
    /\ consumerPc = "select"
    /\ articles' = SubSeq(articles, 1, Len(articles) - 1)
    /\ fetcherPc' = IF Len(articles) = 1 THEN "tick" ELSE "send"
    /\ owed' = owed \ {articles[Len(articles)]}
    /\ consumerPc' = "classify"
    /\ handled' = [NotHandled EXCEPT
                      !.afterFailure = handled.clsFailed \/ handled.sumFailed]
    /\ article' = articles[Len(articles)]
    /\ UNCHANGED <<lastItemPerFeed, feedIdx, cycle, pollsInCycle, panicCause>>
    /\ UNCHANGED <<collectVars, processVars>>
    /\ UNCHANGED callVars

ReceiveWhileBusy ==
    /\ proc = "running"
    /\ fetcherPc = "send"
    /\ consumerPc \in {"select", "summarize"}
    /\ articles' = Tail(articles)
    /\ fetcherPc' = IF Tail(articles) = <<>> THEN "tick" ELSE "send"
    /\ owed' = owed \ {Head(articles)}
    /\ consumerPc' = "classify"
    /\ handled' = [NotHandled EXCEPT
                      !.afterFailure = handled.clsFailed \/ handled.sumFailed]
    /\ article' = Head(articles)
    /\ UNCHANGED <<lastItemPerFeed, feedIdx, cycle, pollsInCycle, panicCause>>
    /\ UNCHANGED <<collectVars, processVars>>
    /\ UNCHANGED callVars

\* `f.ch <- a` (lines 153, 167) meets `article := <-feed.Stream()` (line 331):
\* the channel is unbuffered, the send and the receive are one step
Receive ==
    /\ proc = "running"
    /\ fetcherPc = "send"
    /\ consumerPc = "select"
    /\ articles' = Tail(articles)
    /\ fetcherPc' = IF Tail(articles) = <<>> THEN "tick" ELSE "send"
    /\ owed' = owed \ {Head(articles)}
    /\ consumerPc' = "classify"
    /\ handled' = [NotHandled EXCEPT
                      !.afterFailure = handled.clsFailed \/ handled.sumFailed]
    /\ article' = Head(articles)
    /\ UNCHANGED <<lastItemPerFeed, feedIdx, cycle, pollsInCycle, panicCause>>
    /\ UNCHANGED <<collectVars, processVars>>
    /\ UNCHANGED callVars

\* start(), lines 338-349: clsEngine.Classify and what follows it
ClassifyArticle(tooLong, resp) ==
    LET result == Classify(tooLong, resp)
    IN  /\ proc = "running"
        /\ consumerPc = "classify"
        /\ consumerPc' = AfterClassify(result)
        /\ handled' = [handled EXCEPT !.clsFailed = (result.outcome = "err")]
        /\ panicCause' = IF result.outcome = "panic" THEN "article" ELSE panicCause
        /\ UNCHANGED <<lastItemPerFeed, article, collectVars, fetcherVars, processVars>>
        /\ UNCHANGED callVars

\* start(), lines 350-365: llmClient.Summarize, then the reports
SummarizeArticle(tooLong, resp) ==
    LET result == Summarize(tooLong, resp)
    IN  /\ proc = "running"
        /\ consumerPc = "summarize"
        /\ consumerPc' = AfterSummarize(result)
        /\ handled' = [handled EXCEPT !.summarized = TRUE,
                                      !.sumFailed = (result.outcome = "err"),
                                      !.reported = (result.outcome = "ok")]
        /\ panicCause' = IF result.outcome = "panic" THEN "article" ELSE panicCause
        /\ UNCHANGED <<lastItemPerFeed, article, collectVars, fetcherVars, processVars>>
        /\ UNCHANGED callVars

\* start(), lines 366-368: `case <-ctx.Done(): wg.Done()`, with no return: the
\* loop selects again. WaitGroup.Done panics when the counter goes negative.
CtxDone ==
    /\ proc = "running"
    /\ consumerPc = "select"
    /\ ctxDone
    /\ IF wgCount > 0
       THEN wgCount' = wgCount - 1 /\ UNCHANGED <<consumerPc, panicCause>>
       ELSE /\ consumerPc' = "panicking"
            /\ panicCause' = "waitgroup"
            /\ UNCHANGED wgCount
    /\ UNCHANGED <<lastItemPerFeed, article, handled, ctxDone, signals, proc>>
    /\ UNCHANGED <<collectVars, fetcherVars>>
    /\ UNCHANGED callVars

\* start(), lines 323-327: the deferred function recovers the panic and calls
\* log.Panicf, which logs the message and then panics itself; nothing
\* recovers that panic, and the runtime ends the process
RecoverAndLog ==
    /\ proc = "running"
    /\ consumerPc = "panicking"
    /\ consumerPc' = "dead"
    /\ proc' = "crashed"
    /\ UNCHANGED <<lastItemPerFeed, article, handled, panicCause, ctxDone, signals, wgCount>>
    /\ UNCHANGED <<collectVars, fetcherVars>>
    /\ UNCHANGED callVars

\* start(), lines 372-377: after feed.Start(), wg.Wait() returns, start
\* returns and main returns
WaitReturns ==
    /\ proc = "running"
    /\ fetcherPc # "idle"
    /\ wgCount = 0
    /\ proc' = "exited"
    /\ UNCHANGED <<lastItemPerFeed, ctxDone, signals, wgCount>>
    /\ UNCHANGED <<collectVars, fetcherVars, consumerVars>>
    /\ UNCHANGED callVars

\* signal.SetupHandler, lines 25-30: the first signal cancels the context
FirstSignal ==
    /\ proc = "running"
    /\ signals = 0
    /\ signals' = 1
    /\ ctxDone' = TRUE
    /\ UNCHANGED <<lastItemPerFeed, wgCount, proc>>
    /\ UNCHANGED <<collectVars, fetcherVars, consumerVars>>
    /\ UNCHANGED callVars

SecondSignalIgnored ==
    /\ proc = "running"
    /\ signals = 1
    /\ signals' = 2
    /\ UNCHANGED <<lastItemPerFeed, ctxDone, wgCount, proc>>
    /\ UNCHANGED <<collectVars, fetcherVars, consumerVars>>
    /\ UNCHANGED callVars

\* signal.SetupHandler, lines 28-29: the second signal calls os.Exit(1)
SecondSignal ==
    /\ proc = "running"
    /\ signals = 1
    /\ signals' = 2
    /\ proc' = "killed"
    /\ UNCHANGED <<lastItemPerFeed, ctxDone, wgCount>>
    /\ UNCHANGED <<collectVars, fetcherVars, consumerVars>>
    /\ UNCHANGED callVars

Next ==
    \/ Start
    \/ CollectFails
    \/ \E items \in CycleDocuments : CollectSucceeds(items)
    \/ Tick
    \/ Receive
    \/ \E tooLong \in BOOLEAN, resp \in Completions : ClassifyArticle(tooLong, resp)
    \/ \E tooLong \in BOOLEAN, resp \in Completions : SummarizeArticle(tooLong, resp)
    \/ CtxDone
    \/ RecoverAndLog
    \/ WaitReturns
    \/ FirstSignal
    \/ SecondSignal

Spec == Init /\ [][Next]_vars

\* ------------------------------------- SpecStream: the order on the stream
\* The pipeline while no signal arrives and every poll succeeds, with feed
\* documents of up to MaxSent entries, all dated by the parser, at the seed
\* of the watermarks or later.
StreamItems ==
    [PublishedParsed : {<<t>> : t \in InitFrom..MaxTime},
     Published : {[layout |-> "other", t |-> 0]}]

StreamDocuments == SeqsUpTo(StreamItems, MaxSent)

InitStream == Init

NextStream ==
    \/ Start
    \/ \E items \in StreamDocuments : CollectSucceeds(items)
    \/ Tick
    \/ Receive
    \/ \E tooLong \in BOOLEAN, resp \in Completions : ClassifyArticle(tooLong, resp)
    \/ \E tooLong \in BOOLEAN, resp \in Completions : SummarizeArticle(tooLong, resp)
    \/ RecoverAndLog

SpecStream == InitStream /\ [][NextStream]_vars

\* ---------------------------------------------- SpecOllama: ollama.NewClient
\* One call of ollama.NewClient: the models to load and the answer the
\* server gives to each load request, in the order of the requests.
ModelNames == {modelClsLLM, modelSummary}

OllamaInputs ==
    [models : SeqsUpTo(ModelNames, MaxModels),
     replies : [1..MaxModels -> LoadReplies]]

InitOllama ==
    /\ input \in OllamaInputs
    /\ output = NoCall
    /\ lastItemPerFeed = NewWatermarks
    /\ CollectInit
    /\ FetcherInit
    /\ ConsumerInit
    /\ ProcessInit

NewOllamaClient ==
    /\ output = NoCall
    /\ output' = OllamaNewClient(input.models, input.replies)
    /\ UNCHANGED <<lastItemPerFeed, input>>
    /\ UNCHANGED <<collectVars, fetcherVars, consumerVars, processVars>>

NextOllama == NewOllamaClient

SpecOllama == InitOllama /\ [][NextOllama]_vars

\* ------------------------------------------------- SpecStartup: start()
\* start() from its first statement to feed.Start(). The input is what it
\* finds: the config file, llm.client, OPENAI_API_KEY, the Ollama server's
\* answers to the two load requests, llm.classification.engine, the answer of
\* the OpenAI embeddings API, reporting.slack and SLACK_WEBHOOK_URL. The
\* output is start's position ("config" | "feed" | "llm" | "cls" | "slack"
\* | "consumer" | "run" | "returned"), the error it returned and what it
\* has constructed.
StartInputs ==
    [configFile : {"missing", "malformed", "valid"},
     client : {"openai", "ollama", "other"},
     apiKey : {"", "sk-key"},
     replies : [1..2 -> LoadReplies],
     engine : {"llm", "embeddings"},
     embeddings : EmbeddingResponses,
     slack : BOOLEAN,
     webhook : {"", "https://hooks.slack.com/services/T"}]

InitStartup ==
    /\ input \in StartInputs
    /\ output = [pc |-> "config", err |-> <<>>, llmClient |-> <<>>,
                 clsEngine |-> <<>>, slackClient |-> <<>>]
    /\ lastItemPerFeed = <<>>
    /\ CollectInit
    /\ FetcherInit
    /\ consumerPc = "notStarted"
    /\ article = NoArticle
    /\ handled = NotHandled
    /\ panicCause = "none"
    /\ ctxDone = FALSE
    /\ signals = 0
    /\ wgCount = 0
    /\ proc = "running"

\* lines 291-294: config.New
StartConfig ==
    LET err == ConfigNew(input.configFile)
    IN  /\ output.pc = "config"
        /\ output' = IF err # <<>>
                      THEN [output EXCEPT !.pc = "returned",
                                          !.err = Wrap("failed to create config", err)]
                      ELSE [output EXCEPT !.pc = "feed"]
        /\ UNCHANGED <<lastItemPerFeed, input>>
        /\ UNCHANGED <<collectVars, fetcherVars, consumerVars, processVars>>

\* lines 296-299: feed.New, which returns no error
StartFeed ==
    /\ output.pc = "feed"
    /\ lastItemPerFeed' = NewWatermarks
    /\ output' = [output EXCEPT !.pc = "llm"]
    /\ UNCHANGED input
    /\ UNCHANGED <<collectVars, fetcherVars, consumerVars, processVars>>

\* lines 301-304: llm.NewClient
StartLLMClient ==
    LET c == LLMNewClient(input.client, input.apiKey, input.replies)
    IN  /\ output.pc = "llm"
        /\ output' = IF c.err # <<>>
                      THEN [output EXCEPT !.pc = "returned",
                                          !.err = Wrap("failed to create LLM client", c.err)]
                      ELSE [output EXCEPT !.pc = "cls", !.llmClient = c.client]
        /\ UNCHANGED <<lastItemPerFeed, input>>
        /\ UNCHANGED <<collectVars, fetcherVars, consumerVars, processVars>>

\* lines 306-309: classification.New
StartClassification ==
    LET c == ClassificationNew(input.engine, output.llmClient, categories,
                               input.embeddings)
    IN  /\ output.pc = "cls"
        /\ output' = IF c.err # <<>>
                      THEN [output EXCEPT
                               !.pc = "returned",
                               !.err = Wrap("failed to create classification engine", c.err)]
                      ELSE [output EXCEPT !.pc = "slack", !.clsEngine = c.engine]
        /\ UNCHANGED <<lastItemPerFeed, input>>
        /\ UNCHANGED <<collectVars, fetcherVars, consumerVars, processVars>>

\* lines 311-317: slack.New when reporting.slack is set
StartSlack ==
    LET c == SlackNew(input.webhook)
    IN  /\ output.pc = "slack"
        /\ output' = IF ~input.slack THEN [output EXCEPT !.pc = "consumer"]
                      ELSE IF c.err # <<>>
                      THEN [output EXCEPT
                               !.pc = "returned",
                               !.err = Wrap("failed to create slack client", c.err)]
                      ELSE [output EXCEPT !.pc = "consumer", !.slackClient = c.client]
        /\ UNCHANGED <<lastItemPerFeed, input>>
        /\ UNCHANGED <<collectVars, fetcherVars, consumerVars, processVars>>

\* lines 319-370: wg.Add(1) and `go func()`, the consumer loop
StartConsumer ==
    /\ output.pc = "consumer"
    /\ wgCount' = wgCount + 1
    /\ consumerPc' = "select"
    /\ output' = [output EXCEPT !.pc = "run"]
    /\ UNCHANGED <<lastItemPerFeed, input, article, handled, panicCause>>
    /\ UNCHANGED <<ctxDone, signals, proc>>
    /\ UNCHANGED <<collectVars, fetcherVars>>

\* line 372: feed.Start()
StartFeedStart ==
    /\ output.pc = "run"
    /\ Start

NextStartup ==
    \/ StartConfig
    \/ StartFeed
    \/ StartLLMClient
    \/ StartClassification
    \/ StartSlack
    \/ StartConsumer
    \/ StartFeedStart

SpecStartup == InitStartup /\ [][NextStartup]_vars

\* ------------------------------- SpecClassify: classification.New, Classify
\* One engine and one Classify call on it. The input is the configuration
\* (strategy, threshold, categories) and what the provider answers: for the
\* embeddings strategy the answer to the request that encodes the categories
\* and what EncodeArticle returns for the article, for the LLM strategy the
\* completion. The output is the engine and what Classify returned.
CategoryNames == {"Ransomware", "Phishing"}

\* llm.classification.threshold 8 and 9.5
Thresholds == {8 * Unit, (19 * Unit) \div 2}

\* relevances 7, 8 and 9 in a completion
Relevances == {7 * Unit, 8 * Unit, 9 * Unit}

\* Completions whose JSON array scores any category names; in a text that is
\* no valid JSON, `scores` are the objects that precede the syntax error.
ScoreCompletions ==
    {[kind |-> k, text |-> [valid |-> FALSE, scores |-> <<>>]] :
        k \in {"error", "noChoices"}}
    \cup [kind : {"text"},
          text : [valid : BOOLEAN,
                  scores : SeqsUpTo([Category : CategoryNames,
                                     Relevance : Relevances], MaxScores)]]

CatVectors == {<<3, 4>>, <<5, 0>>}

ArticleVectors == {<<3, 4>>, <<4, 3>>, <<0, 5>>, <<0, 0>>, <<5>>}

\* What EncodeArticle returns: an error, or the vector of the article
ArticleEncodings ==
    {[err |-> <<"embeddings API error">>, vec |-> <<>>]}
    \cup [err : {<<>>}, vec : ArticleVectors]

CategoryEmbeddingResponses ==
    {[err |-> TRUE, Data |-> <<>>]}
    \cup [err : {FALSE}, Data : SeqsUpTo(CatVectors, MaxCategories)]

ClassifyInputs ==
    [clsType : {"llm"},
     threshold : Thresholds,
     categories : SeqsUpTo(CategoryNames, MaxCategories),
     catResp : {[err |-> TRUE, Data |-> <<>>]},
     tooLong : BOOLEAN,
     resp : ScoreCompletions,
     enc : {[err |-> <<>>, vec |-> <<>>]}]
    \cup
    [clsType : {"embeddings"},
     threshold : Thresholds,
     categories : SeqsUpTo(CategoryNames, MaxCategories),
     catResp : CategoryEmbeddingResponses,
     tooLong : {FALSE},
     resp : {[kind |-> "error", text |-> [valid |-> FALSE, scores |-> <<>>]]},
     enc : ArticleEncodings]

NoResult == [outcome |-> "none", value |-> <<>>]

InitClassify ==
    /\ input \in ClassifyInputs
    /\ output = [pc |-> "new", engine |-> <<>>, result |-> NoResult]
    /\ lastItemPerFeed = NewWatermarks
    /\ CollectInit
    /\ FetcherInit
    /\ ConsumerInit
    /\ ProcessInit

\* classification.New on an OpenAI client
NewEngine ==
    LET c == ClassificationNew(input.clsType, <<"openai">>, input.categories,
                               input.catResp)
    IN  /\ output.pc = "new"
        /\ output' = IF c.err # <<>>
                      THEN [output EXCEPT !.pc = "failed"]
                      ELSE [output EXCEPT !.pc = "ready", !.engine = c.engine]
        /\ UNCHANGED <<lastItemPerFeed, input>>
        /\ UNCHANGED <<collectVars, fetcherVars, consumerVars, processVars>>

\* The orders in which a `range` may iterate over a map with these keys
Orders(keys) ==
    {o \in SeqsUpTo(keys, Cardinality(keys)) :
        Len(o) = Cardinality(keys) /\ Range(o) = keys}

EngineClassifyCaches ==
    /\ output.pc = "ready"
    /\ output' = [output EXCEPT
                      !.pc = "done",
                      !.engine = <<[output.engine[1] EXCEPT !.encCategories = <<>>]>>,
                      !.result = [outcome |-> "err", value |-> <<>>]]
    /\ UNCHANGED <<lastItemPerFeed, input>>
    /\ UNCHANGED <<collectVars, fetcherVars, consumerVars, processVars>>

\* ClassificationEngine.Classify, lines 71-79, on the engine constructed
EngineClassify ==
    LET engine == output.engine[1]
    IN  /\ output.pc = "ready"
        /\ \E order \in Orders(DOMAIN engine.encCategories) :
               output' =
                   [output EXCEPT
                       !.pc = "done",
                       !.result =
                           IF engine.clsType = "llm"
                           THEN classifyWithLLM(input.threshold, input.tooLong,
                                                input.resp)
                           ELSE classifyWithEmbeddings(input.threshold,
                                                       engine.encCategories,
                                                       order, input.enc)]
        /\ UNCHANGED <<lastItemPerFeed, input>>
        /\ UNCHANGED <<collectVars, fetcherVars, consumerVars, processVars>>

NextClassify == NewEngine \/ EngineClassify

SpecClassify == InitClassify /\ [][NextClassify]_vars

\* ------------------------------------------------- OpenAI cost accounting
\* modelInputCosts, lines 18-59, in cents per million tokens (two of its rows)
modelInputCosts ==
    [m \in {"gpt-4o-mini", "text-embedding-3-small"} |->
        IF m = "gpt-4o-mini" THEN [input |-> 15, output |-> 60]
        ELSE [input |-> 2, output |-> 0]]

\* modelInputCosts[model]: the zero modelCost for a model the table lacks
ModelCost(model) ==
    IF model \in DOMAIN modelInputCosts THEN modelInputCosts[model]
    ELSE [input |-> 0, output |-> 0]

\* The models of the calls: "my-model" is not in modelInputCosts.
ChatModels == {"gpt-4o-mini", "my-model"}

EmbeddingModels == {"text-embedding-3-small", "my-model"}

TokenCounts == 0..MaxTokens

\* What CreateChatCompletion answers: an error, or a response with its Usage
\* and with or without a first choice.
ChatResponses ==
    {[err |-> TRUE, PromptTokens |-> 0, CompletionTokens |-> 0, Choices |-> 0]}
    \cup [err : {FALSE}, PromptTokens : TokenCounts, CompletionTokens : TokenCounts,
          Choices : {0, 1}]

\* The texts of the CreateEmbeddings calls
CostTexts == <<"article text">>

\* What the embeddings API answers: an error, or a response with its Usage and
\* up to one vector more than there are texts.
CostEmbeddingResponses ==
    {[err |-> TRUE, PromptTokens |-> 0, CompletionTokens |-> 0, Data |-> <<>>]}
    \cup [err : {FALSE}, PromptTokens : TokenCounts, CompletionTokens : {0},
          Data : SeqsUpTo(Vectors, Len(CostTexts) + 1)]

\* tokenUsed.add, lines 73-76
add(t, other) ==
    [prompt |-> t.prompt + other.prompt, completion |-> t.completion + other.completion]

\* The accounting of the generation whose NewClient builds a fixed map:
\* c.tokenUsed[model].add(...) on the nil pointer of a model the map lacks.
updateTokenUsedFixedMap(tokenUsed, model, used) ==
    IF model \in DOMAIN tokenUsed
    THEN [panic |-> FALSE, tokenUsed |-> [tokenUsed EXCEPT ![model] = add(@, used)]]
    ELSE [panic |-> TRUE, tokenUsed |-> tokenUsed]

\* Client.updateTokenUsed, lines 172-181
updateTokenUsed(tokenUsed, model, used) ==
    LET seen == [m \in DOMAIN tokenUsed \cup {model} |->
                    IF m \in DOMAIN tokenUsed THEN tokenUsed[m]
                    ELSE [prompt |-> 0, completion |-> 0]]
    IN  [panic |-> FALSE, tokenUsed |-> [seen EXCEPT ![model] = add(@, used)]]

RECURSIVE CostOf(_, _)
CostOf(tokenUsed, models) ==
    IF models = {} THEN 0
    ELSE LET model == CHOOSE m \in models : TRUE
         IN  tokenUsed[model].prompt * ModelCost(model).input
             + tokenUsed[model].completion * ModelCost(model).output
             + CostOf(tokenUsed, models \ {model})

\* Client.totalCost, lines 162-170, in cents per million tokens
totalCost(tokenUsed) == CostOf(tokenUsed, DOMAIN tokenUsed)

\* openai.NewClient: the client starts with an empty tokenUsed map.
InitCost ==
    /\ input = NoCall
    /\ output = [pc |-> "ready", tokenUsed |-> <<>>, cost |-> 0, log |-> <<>>,
                 panic |-> "none"]
    /\ lastItemPerFeed = NewWatermarks
    /\ CollectInit
    /\ FetcherInit
    /\ ConsumerInit
    /\ ProcessInit

\* One call on the client: the provider's answer, then the accounting, then
\* what the call does with the response.
AccountedCall(call, model, resp, outcome) ==
    LET entry == [call |-> call, model |-> model, resp |-> resp]
        u == updateTokenUsed(output.tokenUsed, model,
                             [prompt |-> resp.PromptTokens,
                              completion |-> resp.CompletionTokens])
    IN  IF resp.err
        THEN output' = [output EXCEPT
                           !.log = Append(@, entry @@ [outcome |-> "err"])]
        ELSE IF u.panic
        THEN output' = [output EXCEPT
                           !.pc = "panicked",
                           !.panic = "nil pointer dereference",
                           !.log = Append(@, entry @@ [outcome |-> "panic"])]
        ELSE output' = [output EXCEPT
                           !.pc = IF outcome = "panic" THEN "panicked" ELSE @,
                           !.panic = IF outcome = "panic"
                                     THEN "index out of range" ELSE @,
                           !.tokenUsed = u.tokenUsed,
                           !.cost = totalCost(u.tokenUsed),
                           !.log = Append(@, entry @@ [outcome |-> outcome])]

\* Client.ChatCompletion, lines 100-134
CostChatCompletion ==
    /\ output.pc = "ready"
    /\ Len(output.log) < MaxCalls
    /\ \E model \in ChatModels, resp \in ChatResponses :
           AccountedCall("ChatCompletion", model, resp,
                         IF resp.Choices = 0 THEN "panic" ELSE "ok")
    /\ UNCHANGED <<lastItemPerFeed, input>>
    /\ UNCHANGED <<collectVars, fetcherVars, consumerVars, processVars>>

\* Client.CreateEmbeddings, lines 136-160
CostCreateEmbeddings ==
    /\ output.pc = "ready"
    /\ Len(output.log) < MaxCalls
    /\ \E model \in EmbeddingModels, resp \in CostEmbeddingResponses :
           AccountedCall("CreateEmbeddings", model, resp,
                         IF OpenAICreateEmbeddings(CostTexts, resp).err # <<>>
                         THEN "err" ELSE "ok")
    /\ UNCHANGED <<lastItemPerFeed, input>>
    /\ UNCHANGED <<collectVars, fetcherVars, consumerVars, processVars>>

NextCost == CostChatCompletion \/ CostCreateEmbeddings

SpecCost == InitCost /\ [][NextCost]_vars

\* ------------------------------------- SpecEnrich: collectFeed and the web
\* The texts of Description and Content, and len() of each
LongText == "a text of 1001 bytes"

TextLen(s) ==
    IF s = "" THEN 0 ELSE IF s = LongText THEN 1001 ELSE 7

\* The longest Description enrichArticleItem keeps (part_005, line 181)
MaxDescription == 1000

\* What fetching and reading the page behind a.Link comes to: client.Do fails,
\* the status is not 200, readability fails, the extracted Content is of
\* length zero, or the page is readable.
Pages == {"network error", "status 404", "unreadable", "zero content", "readable"}

\* content.TextContent of a readable page
TextContent == "page text"

\* fetchURL, lines 220-247
fetchURL(page) ==
    IF page = "network error" THEN [ok |-> FALSE, err |-> <<"failed to fetch the page">>]
    ELSE IF page = "status 404"
    THEN [ok |-> FALSE, err |-> <<"failed to fetch with status code: 404">>]
    ELSE [ok |-> TRUE, err |-> <<>>]

\* enrichArticleItem, lines 174-215: the article returned and the error
enrichArticleItem(a, page) ==
    LET d1 == IF a.Description = "" /\ a.Content # "" THEN a.Content
              ELSE a.Description
        d2 == IF TextLen(d1) > MaxDescription THEN "" ELSE d1
        b == [a EXCEPT !.Description = d2]
    IN  IF ~fetchURL(page).ok THEN [a |-> b, err |-> <<>>]
        ELSE IF page = "unreadable"
        THEN [a |-> b, err |-> <<"failed to extract text content from html">>]
        ELSE IF page = "zero content"
        THEN [a |-> b,
              err |-> <<"failed to extract text content from html (zero content)">>]
        ELSE [a |-> [b EXCEPT !.Content = TextContent], err |-> <<>>]

RECURSIVE EnrichedArticlesSkipFailed(_, _)
EnrichedArticlesSkipFailed(items, lastItem) ==
    IF items = <<>> THEN <<>>
    ELSE LET item == Head(items)
             rest == EnrichedArticlesSkipFailed(Tail(items), lastItem)
             e == enrichArticleItem([Description |-> item.Description,
                                     Content |-> item.Content,
                                     Published |-> item.Published], item.page)
         IN  IF After(item.Published, lastItem) /\ e.err = <<>>
             THEN <<e.a>> \o rest
             ELSE rest

\* collectFeed, lines 91-127, on entries the parser dated: the articles kept,
\* each as enrichArticleItem returned it, whether or not it returned an error
RECURSIVE EnrichedArticles(_, _)
EnrichedArticles(items, lastItem) ==
    IF items = <<>> THEN <<>>
    ELSE LET item == Head(items)
             rest == EnrichedArticles(Tail(items), lastItem)
             e == enrichArticleItem([Description |-> item.Description,
                                     Content |-> item.Content,
                                     Published |-> item.Published], item.page)
         IN  IF After(item.Published, lastItem)
             THEN <<e.a>> \o rest
             ELSE rest

\* The entries of the document: dated at the watermark or after it, with the
\* Description and Content of the feed and the page behind the link.
EnrichItems ==
    [Published : {InitFrom, InitFrom + 1},
     Description : {"", "summary", LongText},
     Content : {"", "summary"},
     page : Pages]

InitEnrich ==
    /\ input \in [url : {rssFeeds[1]}, items : SeqsUpTo(EnrichItems, MaxEnriched)]
    /\ output = NoCall
    /\ lastItemPerFeed = NewWatermarks
    /\ CollectInit
    /\ FetcherInit
    /\ ConsumerInit
    /\ ProcessInit

\* collectFeed, lines 80-140, when ParseURL succeeds
CollectFeedEnriches ==
    LET kept == EnrichedArticles(input.items, lastItemPerFeed[input.url])
    IN  /\ output = NoCall
        /\ output' = [call |-> "collectFeed", articles |-> kept]
        /\ lastItemPerFeed' =
               [lastItemPerFeed EXCEPT
                   ![input.url] = NewWatermark(kept, lastItemPerFeed[input.url])]
        /\ UNCHANGED input
        /\ UNCHANGED <<collectVars, fetcherVars, consumerVars, processVars>>

NextEnrich == CollectFeedEnriches

SpecEnrich == InitEnrich /\ [][NextEnrich]_vars

\* --------------------------------- SpecEmbed: one CreateEmbeddings call
\* The texts of the call, and the vector the embeddings model has for each
EmbedTexts == {"a", "b", "c"}

EmbeddingOf(text) ==
    IF text = "a" THEN <<1, 0>> ELSE IF text = "b" THEN <<0, 1>> ELSE <<1, 1>>

\* resp.Data for these texts: the vectors of the texts in the order of the
\* request, cut short, complete, or with one vector too many.
ProviderData(texts) ==
    {[i \in 1..k |-> IF i <= Len(texts) THEN EmbeddingOf(texts[i]) ELSE <<0, 0>>] :
        k \in 0..(Len(texts) + 1)}

EmbedInputs ==
    UNION {[texts : {texts}, resp : {[err |-> TRUE, Data |-> <<>>]}
                                      \cup [err : {FALSE}, Data : ProviderData(texts)]] :
             texts \in SeqsUpTo(EmbedTexts, MaxTexts)}

InitEmbed ==
    /\ input \in EmbedInputs
    /\ output = NoCall
    /\ lastItemPerFeed = NewWatermarks
    /\ CollectInit
    /\ FetcherInit
    /\ ConsumerInit
    /\ ProcessInit

\* Client.CreateEmbeddings, lines 136-160
CreateEmbeddingsCall ==
    LET r == OpenAICreateEmbeddings(input.texts, input.resp)
    IN  /\ output = NoCall
        /\ output' = [call |-> "CreateEmbeddings", embeddings |-> r.embeddings,
                      err |-> r.err]
        /\ UNCHANGED <<lastItemPerFeed, input>>
        /\ UNCHANGED <<collectVars, fetcherVars, consumerVars, processVars>>

NextEmbed == CreateEmbeddingsCall

SpecEmbed == InitEmbed /\ [][NextEmbed]_vars

\* ------------------------------------------------- SpecChunk: chunkText
\* A text of n characters: the i-th is named i, so that a window shows where
\* it was cut from.
Text(n) == [i \in 1..n |-> i]

RECURSIVE ChunksFromNoOverlap(_, _, _, _)
ChunksFromNoOverlap(runes, start, chunkSize, overlap) ==
    IF start >= Len(runes) THEN <<>>
    ELSE LET end == IF start + chunkSize > Len(runes) THEN Len(runes)
                    ELSE start + chunkSize
         IN  <<SubSeq(runes, start + 1, end)>>
             \o ChunksFromNoOverlap(runes, start + chunkSize, chunkSize, overlap)

\* The loop of chunkText, lines 890-898, from `start` on
RECURSIVE ChunksFrom(_, _, _, _)
ChunksFrom(runes, start, chunkSize, overlap) ==
    IF start >= Len(runes) THEN <<>>
    ELSE LET end == IF start + chunkSize > Len(runes) THEN Len(runes)
                    ELSE start + chunkSize
         IN  <<SubSeq(runes, start + 1, end)>>
             \o ChunksFrom(runes, start + (chunkSize - overlap), chunkSize, overlap)

\* chunkText, lines 885-900
chunkText(text, chunkSize, overlap) == ChunksFrom(text, 0, chunkSize, overlap)

\* The calls tried: chunkSize > overlap >= 0
ChunkInputs ==
    {c \in [text : {Text(n) : n \in 0..MaxLen}, chunkSize : 1..MaxChunk,
            overlap : 0..(MaxChunk - 1)] : c.chunkSize > c.overlap}

InitChunk ==
    /\ input \in ChunkInputs
    /\ output = NoCall
    /\ lastItemPerFeed = NewWatermarks
    /\ CollectInit
    /\ FetcherInit
    /\ ConsumerInit
    /\ ProcessInit

ChunkTextCall ==
    /\ output = NoCall
    /\ output' = [call |-> "chunkText",
                  chunks |-> chunkText(input.text, input.chunkSize, input.overlap)]
    /\ UNCHANGED <<lastItemPerFeed, input>>
    /\ UNCHANGED <<collectVars, fetcherVars, consumerVars, processVars>>

NextChunk == ChunkTextCall

SpecChunk == InitChunk /\ [][NextChunk]_vars

\* ------------------------------- SpecEncode: EncodeArticle and the average
\* element-wise sum of vectors of the dimension dim
RECURSIVE SumVectors(_, _)
SumVectors(embeddings, dim) ==
    IF embeddings = <<>> THEN [i \in 1..dim |-> 0]
    ELSE LET rest == SumVectors(Tail(embeddings), dim)
         IN  [i \in 1..dim |-> Head(embeddings)[i] + rest[i]]

\* An average over the vectors that have the dimension of the first
averageEmbeddingsPartial(embeddings) ==
    IF Len(embeddings) = 0
    THEN [avg |-> <<>>, err |-> <<"no embeddings provided">>]
    ELSE LET dim == Len(embeddings[1])
             same == SelectSeq(embeddings, LAMBDA e : Len(e) = dim)
             sum == SumVectors(same, dim)
         IN  [avg |-> [i \in 1..dim |-> sum[i] \div Len(embeddings)], err |-> <<>>]

\* An average that divides the sums by the dimension
averageEmbeddingsByDim(embeddings) ==
    IF Len(embeddings) = 0
    THEN [avg |-> <<>>, err |-> <<"no embeddings provided">>]
    ELSE LET dim == Len(embeddings[1])
         IN  IF \E k \in 1..Len(embeddings) : Len(embeddings[k]) # dim
             THEN [avg |-> <<>>, err |-> <<"embeddings have inconsistent dimensions">>]
             ELSE LET sum == SumVectors(embeddings, dim)
                  IN  [avg |-> [i \in 1..dim |-> sum[i] \div dim], err |-> <<>>]

\* averageEmbeddings, lines 904-927
averageEmbeddings(embeddings) ==
    IF Len(embeddings) = 0
    THEN [avg |-> <<>>, err |-> <<"no embeddings provided">>]
    ELSE LET dim == Len(embeddings[1])
         IN  IF \E k \in 1..Len(embeddings) : Len(embeddings[k]) # dim
             THEN [avg |-> <<>>, err |-> <<"embeddings have inconsistent dimensions">>]
             ELSE LET sum == SumVectors(embeddings, dim)
                  IN  [avg |-> [i \in 1..dim |-> sum[i] \div Len(embeddings)],
                       err |-> <<>>]

\* llm Client.EncodeArticle, lines 843-882, on the OpenAI client: long is
\* len(text) > embeddingsMaxTextLength, nChunks the number of chunks chunkText
\* cuts the text into, resp the answer of the embeddings API
EncodeArticle(long, nChunks, resp) ==
    IF ~long
    THEN LET embs == OpenAICreateEmbeddings(<<"text">>, resp)
         IN  IF embs.err # <<>> THEN [vec |-> <<>>, err |-> embs.err]
             ELSE [vec |-> embs.embeddings[1], err |-> <<>>]
    ELSE LET chunks == [i \in 1..nChunks |-> "chunk"]
             chunkEmbeddings == OpenAICreateEmbeddings(chunks, resp)
         IN  IF chunkEmbeddings.err # <<>>
             THEN [vec |-> <<>>, err |-> chunkEmbeddings.err]
             ELSE LET a == averageEmbeddings(chunkEmbeddings.embeddings)
                  IN  IF a.err # <<>> THEN [vec |-> <<>>, err |-> a.err]
                      ELSE [vec |-> a.avg, err |-> <<>>]

\* The vectors the embeddings model returns for a chunk: of two dimensions or
\* of one, with averages that divide evenly.
ChunkVectors == {<<36, 48>>, <<0, 0>>, <<12>>}

\* The cache of the engine: one category, encoded in two dimensions
EncodedCategories == [name \in {"Ransomware"} |-> <<3, 4>>]

EncodeInputs ==
    [long : BOOLEAN, nChunks : 1..MaxChunks,
     resp : {[err |-> TRUE, Data |-> <<>>]}
            \cup [err : {FALSE}, Data : SeqsUpTo(ChunkVectors, MaxChunks)]]

InitEncode ==
    /\ input \in EncodeInputs
    /\ output = [averaged |-> FALSE, avg |-> <<>>, avgErr |-> <<>>,
                 classified |-> FALSE, enc |-> [vec |-> <<>>, err |-> <<>>],
                 result |-> NoResult]
    /\ lastItemPerFeed = NewWatermarks
    /\ CollectInit
    /\ FetcherInit
    /\ ConsumerInit
    /\ ProcessInit

\* averageEmbeddings on the list of vectors as it is
AverageCall ==
    LET a == averageEmbeddings(input.resp.Data)
    IN  /\ ~input.resp.err
        /\ ~output.averaged
        /\ output' = [output EXCEPT !.averaged = TRUE, !.avg = a.avg,
                                    !.avgErr = a.err]
        /\ UNCHANGED <<lastItemPerFeed, input>>
        /\ UNCHANGED <<collectVars, fetcherVars, consumerVars, processVars>>

\* classifyWithEmbeddings, lines 105-133, with the EncodeArticle call in it
ClassifyEncodes ==
    LET enc == EncodeArticle(input.long, input.nChunks, input.resp)
    IN  /\ ~output.classified
        /\ output' = [output EXCEPT
                         !.classified = TRUE,
                         !.enc = enc,
                         !.result = classifyWithEmbeddings(
                                        Threshold * Unit, EncodedCategories,
                                        <<"Ransomware">>, enc)]
        /\ UNCHANGED <<lastItemPerFeed, input>>
        /\ UNCHANGED <<collectVars, fetcherVars, consumerVars, processVars>>

NextEncode == AverageCall \/ ClassifyEncodes

SpecEncode == InitEncode /\ [][NextEncode]_vars

\* ------------------- SpecOwners: who touches the watermarks and the totals
\* start() from feed.New on, with its two goroutines. output.started is the
\* set of goroutines launched so far; output.accesses records every access to
\* f.lastItemPerFeed and to c.tokenUsed: the structure, the goroutine, and the
\* goroutines that were running beside main when it happened.
Accessed(on, by) ==
    output.accesses \cup {[on |-> on, by |-> by, started |-> output.started]}

\* The answers that report a usage, and the failed request
OwnerChatResponses ==
    {r \in ChatResponses :
        r.err \/ (r.PromptTokens = MaxTokens /\ r.CompletionTokens = MaxTokens)}

OwnerEmbeddingResponses ==
    {r \in CostEmbeddingResponses : r.err \/ r.PromptTokens = MaxTokens}

\* Before feed.New there is no map yet.
InitOwners ==
    /\ input = NoCall
    /\ output = [pc |-> "feed", started |-> {}, accesses |-> {}, tokenUsed |-> <<>>,
                 calls |-> 0]
    /\ lastItemPerFeed = [u \in Urls |-> 0]
    /\ CollectInit
    /\ FetcherInit
    /\ ConsumerInit
    /\ ProcessInit

\* start(), line 296: feed.New seeds the watermarks (part_005, lines 50-52)
OwnFeedNew ==
    /\ output.pc = "feed"
    /\ lastItemPerFeed' = New(rssFeeds, InitFrom + InitPull, InitPull).lastItemPerFeed
    /\ output' = [output EXCEPT !.pc = "cls",
                                !.accesses = Accessed("lastItemPerFeed", "main")]
    /\ UNCHANGED input
    /\ UNCHANGED <<collectVars, fetcherVars, consumerVars, processVars>>

\* classification.New after the consumer goroutine was launched
OwnClassificationNewLate(clsType, resp) ==
    LET c == ClassificationNew(clsType, <<"openai">>, categories, resp)
        counted == clsType = "embeddings" /\ ~resp.err
        u == updateTokenUsed(output.tokenUsed, "text-embedding-3-small",
                             [prompt |-> resp.PromptTokens,
                              completion |-> resp.CompletionTokens])
    IN  /\ output.pc = "cls"
        /\ output' =
               [output EXCEPT
                   !.pc = IF c.err # <<>> THEN "returned" ELSE "start",
                   !.started = {"consumer"},
                   !.tokenUsed = IF counted THEN u.tokenUsed ELSE @,
                   !.accesses =
                       IF counted
                       THEN @ \cup {[on |-> "tokenUsed", by |-> "main",
                                     started |-> {"consumer"}]}
                       ELSE @]
        /\ UNCHANGED <<lastItemPerFeed, input>>
        /\ UNCHANGED <<collectVars, fetcherVars, consumerVars, processVars>>

\* start(), lines 306-309: classification.New; with the embeddings strategy
\* EncodeCategories calls CreateEmbeddings, which accounts the tokens of a
\* response it received (client.go, line 147)
OwnClassificationNew(clsType, resp) ==
    LET c == ClassificationNew(clsType, <<"openai">>, categories, resp)
        counted == clsType = "embeddings" /\ ~resp.err
        u == updateTokenUsed(output.tokenUsed, "text-embedding-3-small",
                             [prompt |-> resp.PromptTokens,
                              completion |-> resp.CompletionTokens])
    IN  /\ output.pc = "cls"
        /\ output' =
               [output EXCEPT
                   !.pc = IF c.err # <<>> THEN "returned" ELSE "go",
                   !.tokenUsed = IF counted THEN u.tokenUsed ELSE @,
                   !.accesses = IF counted THEN Accessed("tokenUsed", "main") ELSE @]
        /\ UNCHANGED <<lastItemPerFeed, input>>
        /\ UNCHANGED <<collectVars, fetcherVars, consumerVars, processVars>>

\* start(), line 322: go func() { ... }, the consumer
OwnGoConsumer ==
    /\ output.pc = "go"
    /\ output' = [output EXCEPT !.pc = "start", !.started = @ \cup {"consumer"}]
    /\ UNCHANGED <<lastItemPerFeed, input>>
    /\ UNCHANGED <<collectVars, fetcherVars, consumerVars, processVars>>

\* start(), lines 372-373: feed.Start() launches fetchFeeds; main waits
OwnFeedStart ==
    /\ output.pc = "start"
    /\ output' = [output EXCEPT !.pc = "wait", !.started = @ \cup {"fetcher"}]
    /\ fetcherPc' = "collect"
    /\ cycle' = 1
    /\ UNCHANGED <<lastItemPerFeed, input, feedIdx, articles, pollsInCycle, owed>>
    /\ UNCHANGED <<collectVars, consumerVars, processVars>>

\* fetchFeeds: collectFeed on the next source reads its watermark (line 82)
\* and fails in ParseURL
OwnCollectFeedFails ==
    /\ "fetcher" \in output.started
    /\ fetcherPc = "collect"
    /\ output' = [output EXCEPT !.accesses = Accessed("lastItemPerFeed", "fetcher")]
    /\ articles' = <<>>
    /\ fetcherPc' = IF cycle = 1 THEN "returned" ELSE "tick"
    /\ UNCHANGED <<lastItemPerFeed, input, feedIdx, cycle, pollsInCycle, owed>>
    /\ UNCHANGED <<collectVars, consumerVars, processVars>>

\* fetchFeeds: collectFeed on the next source reads and writes its watermark
OwnCollectFeed(items) ==
    LET u == rssFeeds[feedIdx]
        kept == KeptArticles(items, lastItemPerFeed[u])
        all == articles \o FromFeed(u, kept, 1)
    IN  /\ "fetcher" \in output.started
        /\ fetcherPc = "collect"
        /\ output' = [output EXCEPT
                         !.accesses = Accessed("lastItemPerFeed", "fetcher")]
        /\ lastItemPerFeed' = [lastItemPerFeed EXCEPT ![u] = NewWatermark(kept, @)]
        /\ articles' = all
        /\ IF feedIdx < Len(rssFeeds)
           THEN feedIdx' = feedIdx + 1 /\ fetcherPc' = "collect"
           ELSE feedIdx' = feedIdx
                /\ fetcherPc' = IF all = <<>> THEN "tick" ELSE "send"
        /\ UNCHANGED <<input, cycle, pollsInCycle, owed>>
        /\ UNCHANGED <<collectVars, consumerVars, processVars>>

\* fetchFeeds: the next tick
OwnTick ==
    /\ fetcherPc = "tick"
    /\ cycle < MaxCycles
    /\ cycle' = cycle + 1
    /\ fetcherPc' = "collect"
    /\ feedIdx' = 1
    /\ articles' = <<>>
    /\ UNCHANGED <<lastItemPerFeed, pollsInCycle, owed>>
    /\ UNCHANGED <<collectVars, consumerVars, processVars, callVars>>

\* the consumer receives the next article
OwnReceive ==
    /\ "consumer" \in output.started
    /\ fetcherPc = "send"
    /\ consumerPc = "select"
    /\ articles' = Tail(articles)
    /\ fetcherPc' = IF Tail(articles) = <<>> THEN "tick" ELSE "send"
    /\ consumerPc' = "classify"
    /\ article' = Head(articles)
    /\ UNCHANGED <<lastItemPerFeed, feedIdx, cycle, pollsInCycle, owed>>
    /\ UNCHANGED <<handled, panicCause, collectVars, processVars, callVars>>

\* the consumer: the ChatCompletion call of Classify or of Summarize, which
\* accounts the tokens of a response it received (client.go, line 130)
OwnChatCompletion(resp, matched) ==
    LET u == updateTokenUsed(output.tokenUsed, "gpt-4o-mini",
                             [prompt |-> resp.PromptTokens,
                              completion |-> resp.CompletionTokens])
    IN  /\ consumerPc \in {"classify", "summarize"}
        /\ output.calls < MaxCalls
        /\ output' =
               [output EXCEPT
                   !.calls = @ + 1,
                   !.tokenUsed = IF resp.err THEN @ ELSE u.tokenUsed,
                   !.accesses = IF resp.err THEN @
                                ELSE Accessed("tokenUsed", "consumer")]
        /\ consumerPc' =
               IF ~resp.err /\ resp.Choices = 0 THEN "dead"
               ELSE IF consumerPc = "classify" /\ ~resp.err /\ matched
               THEN "summarize"
               ELSE "select"
        /\ UNCHANGED <<lastItemPerFeed, input, article, handled, panicCause>>
        /\ UNCHANGED <<collectVars, fetcherVars, processVars>>

NextOwners ==
    \/ OwnFeedNew
    \/ \E clsType \in {"llm", "embeddings"}, resp \in OwnerEmbeddingResponses :
           OwnClassificationNew(clsType, resp)
    \/ OwnGoConsumer
    \/ OwnFeedStart
    \/ OwnCollectFeedFails
    \/ \E items \in CycleDocuments : OwnCollectFeed(items)
    \/ OwnTick
    \/ OwnReceive
    \/ \E resp \in OwnerChatResponses, matched \in BOOLEAN :
           OwnChatCompletion(resp, matched)

SpecOwners == InitOwners /\ [][NextOwners]_vars

\* --------------------------- SpecConsumer: one article through the consumer
\* The article's classification (prompt too long or not, the completion), its
\* summarization (the same), and the reporting configuration: whether
\* reporting.stdout is set, and whether there is no Slack client, one whose
\* webhook succeeds or one whose webhook fails.
ConsumerInputs ==
    [tooLong : BOOLEAN, resp : Completions,
     sumTooLong : BOOLEAN, sumResp : {c \in Completions : c.text.scores = <<>>},
     stdout : BOOLEAN, slack : {"off", "ok", "fails"}]

InitConsumer ==
    /\ input \in ConsumerInputs
    /\ output = [pc |-> "classify", classified |-> FALSE, summarized |-> FALSE,
                 printed |-> FALSE, slackSent |-> FALSE, slackLogged |-> FALSE]
    /\ lastItemPerFeed = NewWatermarks
    /\ CollectInit
    /\ FetcherInit
    /\ ConsumerInit
    /\ ProcessInit

\* start(), lines 338-349: clsEngine.Classify and what follows it
ConsumerClassify ==
    LET result == Classify(input.tooLong, input.resp)
    IN  /\ output.pc = "classify"
        /\ output' = [output EXCEPT !.pc = AfterClassify(result),
                                    !.classified = TRUE]
        /\ UNCHANGED <<lastItemPerFeed, input>>
        /\ UNCHANGED <<collectVars, fetcherVars, consumerVars, processVars>>

\* start(), lines 350-365: llmClient.Summarize, then printSummaryToStdout when
\* reporting.stdout is set, then SendWebhook when there is a Slack client,
\* whose error is only logged
ConsumerSummarize ==
    LET result == Summarize(input.sumTooLong, input.sumResp)
        ok == result.outcome = "ok"
    IN  /\ output.pc = "summarize"
        /\ output' = [output EXCEPT
                         !.pc = AfterSummarize(result),
                         !.summarized = TRUE,
                         !.printed = ok /\ input.stdout,
                         !.slackSent = ok /\ input.slack # "off",
                         !.slackLogged = ok /\ input.slack = "fails"]
        /\ UNCHANGED <<lastItemPerFeed, input>>
        /\ UNCHANGED <<collectVars, fetcherVars, consumerVars, processVars>>

NextConsumer == ConsumerClassify \/ ConsumerSummarize

SpecConsumer == InitConsumer /\ [][NextConsumer]_vars

\* ------------------------------------ SpecChunkLoop: the loop of chunkText
\* chunkText one iteration at a time, for every chunkSize and overlap, also
\* chunkSize <= overlap. A negative start makes runes[start:end] panic.
ChunkLoopInputs ==
    [text : {Text(n) : n \in 0..MaxLen}, chunkSize : 0..MaxChunk,
     overlap : 0..MaxChunk]

InitChunkLoop ==
    /\ input \in ChunkLoopInputs
    /\ output = [pc |-> "loop", start |-> 0, chunks |-> <<>>]
    /\ lastItemPerFeed = NewWatermarks
    /\ CollectInit
    /\ FetcherInit
    /\ ConsumerInit
    /\ ProcessInit

ChunkLoopStepStays ==
    LET n == Len(input.text)
        end == IF output.start + input.chunkSize > n THEN n
               ELSE output.start + input.chunkSize
    IN  /\ output.pc = "loop"
        /\ output.start < n
        /\ Len(output.chunks) <= MaxLen
        /\ output' = [output EXCEPT
                         !.chunks = Append(@, SubSeq(input.text, output.start + 1, end))]
        /\ UNCHANGED <<lastItemPerFeed, input>>
        /\ UNCHANGED <<collectVars, fetcherVars, consumerVars, processVars>>

\* chunkText, lines 890-898: one iteration of `for start < n`
ChunkLoopStep ==
    LET n == Len(input.text)
        end == IF output.start + input.chunkSize > n THEN n
               ELSE output.start + input.chunkSize
    IN  /\ output.pc = "loop"
        /\ output.start < n
        /\ Len(output.chunks) <= MaxLen
        /\ output' =
               IF output.start < 0 \/ end < output.start
               THEN [output EXCEPT !.pc = "panicked"]
               ELSE [output EXCEPT
                        !.chunks = Append(@, SubSeq(input.text, output.start + 1, end)),
                        !.start = @ + (input.chunkSize - input.overlap)]
        /\ UNCHANGED <<lastItemPerFeed, input>>
        /\ UNCHANGED <<collectVars, fetcherVars, consumerVars, processVars>>

\* chunkText, lines 890 and 899: the loop condition fails, chunks is returned
ChunkLoopReturns ==
    /\ output.pc = "loop"
    /\ output.start >= Len(input.text)
    /\ output' = [output EXCEPT !.pc = "done"]
    /\ UNCHANGED <<lastItemPerFeed, input>>
    /\ UNCHANGED <<collectVars, fetcherVars, consumerVars, processVars>>

NextChunkLoop == ChunkLoopStep \/ ChunkLoopReturns

SpecChunkLoop == InitChunkLoop /\ [][NextChunkLoop]_vars

\* The call runs: a loop iteration or the return that can be taken is taken.
FairSpecChunkLoop == SpecChunkLoop /\ WF_vars(NextChunkLoop)

\* --------------------- SpecEngineType: the engine types of classification
\* classification.New and the Classify calls of the consumer loop for every
\* engine type the configuration may name, also one that is neither "llm" nor
\* "embeddings" (ClassificationEngineType.Set and the YAML field take any
\* string). `contacts` counts the requests sent to the provider.
EngineTypes == {"llm", "embeddings", "bert", ""}

EngineTypeInputs ==
    [clsType : EngineTypes,
     threshold : Thresholds,
     categories : SeqsUpTo(CategoryNames, MaxCategories),
     catResp : CategoryEmbeddingResponses]

\* The requests classification.New sends: EncodeCategories sends one
\* CreateEmbeddings request, for the embeddings strategy only (lines 58-66)
NewContacts(classificationType) ==
    IF classificationType = "embeddings" THEN 1 ELSE 0

ClassifyDispatchDefaultsToLLM(engine, threshold, tooLong, resp, order, enc) ==
    IF engine.clsType = "embeddings"
    THEN [result |-> classifyWithEmbeddings(threshold, engine.encCategories,
                                            order, enc),
          err |-> <<>>, contacts |-> 1]
    ELSE [result |-> classifyWithLLM(threshold, tooLong, resp),
          err |-> <<>>, contacts |-> IF tooLong THEN 0 ELSE 1]

\* ClassificationEngine.Classify, lines 71-79, with the requests it sends:
\* CategoryMatchingWithLLM sends one completion request unless the prompts
\* are too long, EncodeArticle one embeddings request; the last branch
\* sends none
ClassifyDispatch(engine, threshold, tooLong, resp, order, enc) ==
    IF engine.clsType = "llm"
    THEN [result |-> classifyWithLLM(threshold, tooLong, resp),
          err |-> <<>>, contacts |-> IF tooLong THEN 0 ELSE 1]
    ELSE IF engine.clsType = "embeddings"
    THEN [result |-> classifyWithEmbeddings(threshold, engine.encCategories,
                                            order, enc),
          err |-> <<>>, contacts |-> 1]
    ELSE [result |-> [outcome |-> "err", value |-> <<>>],
          err |-> <<"unknown classification engine type">>,
          contacts |-> 0]

\* What the provider would answer to the requests of one Classify call: a
\* completion for the LLM strategy, the article's encoding for the embeddings
\* strategy, either of them for an engine of another type
ProviderAnswers(engine) ==
    LET llmAnswers ==
            [tooLong : BOOLEAN, resp : ScoreCompletions, order : {<<>>},
             enc : {[err |-> <<>>, vec |-> <<>>]}]
        embAnswers ==
            [tooLong : {FALSE},
             resp : {[kind |-> "error",
                      text |-> [valid |-> FALSE, scores |-> <<>>]]},
             order : Orders(DOMAIN engine.encCategories),
             enc : ArticleEncodings]
    IN  IF engine.clsType = "llm" THEN llmAnswers
        ELSE IF engine.clsType = "embeddings" THEN embAnswers
        ELSE llmAnswers \cup embAnswers

InitEngineType ==
    /\ input \in EngineTypeInputs
    /\ output = [pc |-> "new", engine |-> <<>>, contacts |-> 0, calls |-> 0,
                 skipped |-> 0, summarized |-> 0, err |-> <<>>]
    /\ lastItemPerFeed = NewWatermarks
    /\ CollectInit
    /\ FetcherInit
    /\ ConsumerInit
    /\ ProcessInit

\* classification.New on an OpenAI client (start(), lines 306-309)
EngineTypeNew ==
    LET c == ClassificationNew(input.clsType, <<"openai">>, input.categories,
                               input.catResp)
    IN  /\ output.pc = "new"
        /\ output' = [output EXCEPT
                         !.pc = IF c.err # <<>> THEN "failed" ELSE "select",
                         !.engine = c.engine,
                         !.contacts = @ + NewContacts(input.clsType),
                         !.err = c.err]
        /\ UNCHANGED <<lastItemPerFeed, input>>
        /\ UNCHANGED <<collectVars, fetcherVars, consumerVars, processVars>>

\* start(), lines 331-349: an article arrives and clsEngine.Classify is
\* called on it; an error is logged and the loop continues with the next
\* article
EngineTypeClassify ==
    LET engine == output.engine[1]
    IN  /\ output.pc = "select"
        /\ output.calls < MaxCalls
        /\ \E a \in ProviderAnswers(engine) :
               LET c == ClassifyDispatch(engine, input.threshold, a.tooLong,
                                         a.resp, a.order, a.enc)
               IN  output' = [output EXCEPT
                                 !.pc = AfterClassify(c.result),
                                 !.calls = @ + 1,
                                 !.contacts = @ + c.contacts,
                                 !.skipped = IF c.result.outcome = "err"
                                             THEN @ + 1 ELSE @,
                                 !.err = c.err]
        /\ UNCHANGED <<lastItemPerFeed, input>>
        /\ UNCHANGED <<collectVars, fetcherVars, consumerVars, processVars>>

\* start(), lines 350-365: llmClient.Summarize on an article that matched
EngineTypeSummarize ==
    /\ output.pc = "summarize"
    /\ \E tooLong \in BOOLEAN,
          resp \in {c \in ScoreCompletions : c.text.scores = <<>>} :
           output' = [output EXCEPT
                         !.pc = AfterSummarize(Summarize(tooLong, resp)),
                         !.summarized = @ + 1,
                         !.contacts = IF tooLong THEN @ ELSE @ + 1]
    /\ UNCHANGED <<lastItemPerFeed, input>>
    /\ UNCHANGED <<collectVars, fetcherVars, consumerVars, processVars>>

NextEngineType == EngineTypeNew \/ EngineTypeClassify \/ EngineTypeSummarize

SpecEngineType == InitEngineType /\ [][NextEngineType]_vars

\* ------------------- SpecLLMInput: the input limit of the LLM strategy
\* Classify calls of the LLM strategy on an OpenAI client, with the lengths
\* in bytes of what goes into the prompts and with the client's token
\* accumulator. `requests` counts the completion requests sent.
llmInputMaxTextLength == 40000

\* len of the system prompt's fixed text, lines 767-783
SystemPromptFixedLen == 536

\* len of "Below is the article to evaluate:\n\n" and of the labels and line
\* ends of "Title: %s\nDescription: %s\nLink: %s\nContent: %s\n"
UserPromptFixedLen == 74

\* the decimal digits of a positive number
RECURSIVE Digits(_)
Digits(n) == IF n < 10 THEN 1 ELSE 1 + Digits(n \div 10)

\* len of the system prompt: "%d. %s: %s\n" for category i+1, lines 784-786
RECURSIVE CategoryLinesLen(_, _)
CategoryLinesLen(cats, i) ==
    IF i > Len(cats) THEN 0
    ELSE Digits(i) + 2 + cats[i].Name + 2 + cats[i].Description + 1
         + CategoryLinesLen(cats, i + 1)

SystemPromptLen(cats) == SystemPromptFixedLen + CategoryLinesLen(cats, 1)

\* len of the user prompt, lines 787-788
UserPromptLen(a) ==
    UserPromptFixedLen + a.Title + a.Description + a.Link + a.Content

\* The categories of the configuration, by the lengths of name and description
CategoryLens == [Name : {8, 10}, Description : {50}]

\* The combined lengths tried: far below the limit, at the limit, one byte
\* over it and far over it
TotalLens ==
    {2000, llmInputMaxTextLength, llmInputMaxTextLength + 1,
     2 * llmInputMaxTextLength}

\* Articles by the lengths of their fields, the content such that both
\* prompts together come to one of TotalLens
ArticleLens(cats) ==
    [Title : {60}, Description : {200}, Link : {50},
     Content : {t - SystemPromptLen(cats) - UserPromptFixedLen - 310 :
                   t \in TotalLens}]

\* The completions with at most one score
ShortCompletions == {c \in ScoreCompletions : Len(c.text.scores) <= 1}

\* The usage of a response, as many completion tokens as prompt tokens
Usages == {[prompt |-> n, completion |-> n] : n \in TokenCounts}

LLMClassifyAsksFirst(tokenUsed, model, threshold, len, resp, used) ==
    LET result == classifyWithLLM(threshold, len > llmInputMaxTextLength, resp)
    IN  [result |-> result, requests |-> 1,
         tokenUsed |-> IF resp.kind = "error" THEN tokenUsed
                       ELSE updateTokenUsed(tokenUsed, model, used).tokenUsed]

\* classifyWithLLM on a client whose accumulator is tokenUsed, for prompts of
\* `len` bytes together: CategoryMatchingWithLLM returns the error of line
\* 791 before ChatCompletion is called; ChatCompletion sends the request and
\* accounts the usage of every response that is no error (openai client,
\* line 130), before it reads Choices[0]
LLMClassify(tokenUsed, model, threshold, len, resp, used) ==
    LET tooLong == len > llmInputMaxTextLength
        result == classifyWithLLM(threshold, tooLong, resp)
    IN  [result |-> result,
         requests |-> IF tooLong THEN 0 ELSE 1,
         tokenUsed |-> IF tooLong \/ resp.kind = "error" THEN tokenUsed
                       ELSE updateTokenUsed(tokenUsed, model, used).tokenUsed]

LLMInputs ==
    [model : ChatModels, threshold : Thresholds,
     categories : SeqsUpTo(CategoryLens, MaxCategories)]

InitLLMInput ==
    /\ input \in LLMInputs
    /\ output = [pc |-> "select", calls |-> 0, requests |-> 0,
                 tokenUsed |-> <<>>, len |-> 0, result |-> NoResult]
    /\ lastItemPerFeed = NewWatermarks
    /\ CollectInit
    /\ FetcherInit
    /\ ConsumerInit
    /\ ProcessInit

\* start(), lines 331-349: clsEngine.Classify on the article received
LLMInputClassify ==
    /\ output.pc = "select"
    /\ output.calls < MaxCalls
    /\ \E a \in ArticleLens(input.categories), resp \in ShortCompletions,
          used \in Usages :
           LET len == SystemPromptLen(input.categories) + UserPromptLen(a)
               c == LLMClassify(output.tokenUsed, input.model, input.threshold,
                                len, resp, used)
           IN  output' = [pc |-> AfterClassify(c.result),
                          calls |-> output.calls + 1,
                          requests |-> output.requests + c.requests,
                          tokenUsed |-> c.tokenUsed,
                          len |-> len,
                          result |-> c.result]
    /\ UNCHANGED <<lastItemPerFeed, input>>
    /\ UNCHANGED <<collectVars, fetcherVars, consumerVars, processVars>>

\* start(), lines 350-365: what follows a match leads back to the select
LLMInputReported ==
    /\ output.pc = "summarize"
    /\ output' = [output EXCEPT !.pc = "select"]
    /\ UNCHANGED <<lastItemPerFeed, input>>
    /\ UNCHANGED <<collectVars, fetcherVars, consumerVars, processVars>>

NextLLMInput == LLMInputClassify \/ LLMInputReported

SpecLLMInput == InitLLMInput /\ [][NextLLMInput]_vars

\* ------------------------------------------------------------------ claims
\* C1: across any sequence of polls, whatever the feed documents hold and in
\* whatever order, no source's watermark lastItemPerFeed[url] decreases.
C1_WatermarkNeverDecreases ==
    [][\A u \in Urls : lastItemPerFeed'[u] >= lastItemPerFeed[u]]_vars

\* A second poll has run, and the latest poll of a source kept two entries
\* that its feed listed oldest first and advanced the watermark.
C1_Witness ==
    \E u \in Urls :
        /\ polls >= 2
        /\ Len(lastKept[u]) >= 2
        /\ lastKept[u][1].Published < lastKept[u][2].Published
        /\ lastItemPerFeed[u] > InitFrom

\* C2: once an article has been accepted from a source, the source's
\* watermark is the maximum Published among all articles ever accepted from
\* it, whatever order the feed lists its entries in.
C2_WatermarkIsMaxAccepted ==
    \A u \in Urls :
        accepted[u] # {} => lastItemPerFeed[u] = Max(accepted[u])

\* C3: an article accepted in one poll of a source is not returned again by
\* the next poll of that source. (An article the next poll returns is one its
\* feed document still lists with the same Published time.)
C3_NoDuplicateDelivery ==
    [][\A u \in Urls :
          (polls' = polls + 1 /\ polled'.url = u)
              => Range(lastKept[u]) \cap Range(lastKept'[u]) = {}]_vars

\* C4: when a poll cycle is over (fetchFeeds waits for the next tick, or has
\* returned), collectFeed was called on every configured source in it and no
\* article it kept is left unsent.
C4_PartialFailureIsolation ==
    fetcherPc \in {"tick", "returned"} => (pollsInCycle = Urls /\ owed = {})

\* C5: while no cancellation occurred and the process runs, every article
\* that collectFeed kept and that the consumer has not received yet is still
\* held by fetchFeeds to be sent: none is discarded.
C5_NoArticleDiscarded ==
    (proc = "running" /\ ~ctxDone) => owed \subseteq Range(articles)

\* C6: once the consumer loop has observed the cancellation (it called
\* wg.Done) it has exited, and when wg.Wait() has let the process shut down
\* the poll loop has exited too.
C6_LoopsExitOnCancellation ==
    /\ wgCount = 0 => consumerPc = "returned"
    /\ proc = "exited" => fetcherPc = "returned"

\* C7: the poll loop ends only on cancellation: fetchFeeds has not returned
\* unless the cancellation signal was raised.
C7_PollLoopEndsOnlyOnCancellation ==
    fetcherPc = "returned" => ctxDone

\* C8: an article whose classification failed is neither summarized nor
\* reported, and after a classification or summarization failure the
\* consumer loop is back at its select (while the process runs uncancelled).
C8_ClassificationFailureSkipsArticle ==
    /\ handled.clsFailed => (~handled.summarized /\ ~handled.reported)
    /\ ((handled.clsFailed \/ handled.sumFailed) /\ proc = "running" /\ ~ctxDone)
           => consumerPc = "select"

\* The consumer received the next article after a failure on the previous one.
C8_Witness ==
    handled.afterFailure /\ consumerPc = "classify" /\ proc = "running"

\* C9: a panic raised while the consumer loop processes an article does not
\* crash the process.
C9_PanicDoesNotCrashProcess ==
    panicCause = "article" => proc # "crashed"

\* C10: a successful poll of a document in which every entry is undated or
\* dated at or before the watermark returns no article and leaves every
\* watermark as it was.
C10_EmptyPollKeepsWatermark ==
    [][(polls' = polls + 1 /\ ~polled'.err /\ polled'.noNew)
          => (returned'.articles = <<>> /\ lastItemPerFeed' = lastItemPerFeed)]_vars

\* A poll of a non-empty document kept nothing, with the watermark already
\* advanced by an earlier poll.
C10_Witness ==
    /\ polls >= 2
    /\ ~polled.err
    /\ polled.noNew
    /\ ~polled.empty
    /\ returned.articles = <<>>
    /\ lastItemPerFeed[polled.url] > InitFrom

\* C11: a successful poll returns exactly the entries that have a usable
\* publish time strictly after the watermark the source had when the poll
\* began, in feed order; an entry dated at the watermark or before it is not
\* returned.
C11_KeepsExactlyNewerEntries ==
    (polls = 1 /\ ~input.err) =>
        LET w == input.lastItemPerFeed[input.url]
            Newer(item) == ItemPublished(item).ok /\ ItemPublished(item).t > w
            newer == SelectSeq(input.items, Newer)
        IN  /\ Len(returned.articles) = Len(newer)
            /\ \A i \in 1..Len(newer) :
                   returned.articles[i].Published = ItemPublished(newer[i]).t
            /\ \A a \in Range(returned.articles) : a.Published > w

\* A poll of a feed that lists an entry dated exactly at the watermark and an
\* entry dated after it, and returned one article.
C11_Witness ==
    /\ polls = 1
    /\ ~input.err
    /\ \E i, j \in 1..Len(input.items) :
           /\ ItemPublished(input.items[i]).ok
           /\ ItemPublished(input.items[i]).t = input.lastItemPerFeed[input.url]
           /\ ItemPublished(input.items[j]).ok
           /\ ItemPublished(input.items[j]).t > input.lastItemPerFeed[input.url]
    /\ Len(returned.articles) = 1

\* C12: an entry the parser left undated is returned only if its raw Published
\* string parses in the fallback layout to a time after the watermark; an
\* entry whose fallback parse fails is dropped, and the poll returns the
\* articles and leaves the watermark it would without that entry.
C12_UndatedEntryNeedsFallback ==
    (polls = 1 /\ ~input.err) =>
        LET w == input.lastItemPerFeed[input.url]
            items == input.items
            DatedNewer(item) ==
                item.PublishedParsed # <<>> /\ item.PublishedParsed[1] > w
            FallbackNewer(item) ==
                /\ item.PublishedParsed = <<>>
                /\ item.Published.layout = CrowdStrikeLayout
                /\ item.Published.t > w
            Parseable(item) ==
                item.PublishedParsed # <<>>
                \/ item.Published.layout = CrowdStrikeLayout
            without == KeptArticles(SelectSeq(items, Parseable), w)
        IN  /\ Len(returned.articles) =
                   Cardinality({i \in 1..Len(items) :
                                   DatedNewer(items[i]) \/ FallbackNewer(items[i])})
            /\ returned.articles = without
            /\ lastItemPerFeed = [input.lastItemPerFeed EXCEPT
                                     ![input.url] = NewWatermark(without, w)]

\* A poll of a feed that lists an undated entry whose string is in no known
\* layout and an undated entry the fallback dates after the watermark, and
\* returned one article.
C12_Witness ==
    /\ polls = 1
    /\ ~input.err
    /\ \E i, j \in 1..Len(input.items) :
           /\ input.items[i].PublishedParsed = <<>>
           /\ input.items[i].Published.layout # CrowdStrikeLayout
           /\ input.items[j].PublishedParsed = <<>>
           /\ TimeParse(input.items[j].Published).ok
           /\ TimeParse(input.items[j].Published).t > input.lastItemPerFeed[input.url]
    /\ Len(returned.articles) = 1

\* C13: after a poll that returned at least one article, the watermark of the
\* source is the Published time of the first returned article, which is the
\* first entry of the feed document dated after the previous watermark, and
\* as many articles were returned as entries are dated after the previous
\* watermark.
C13_WatermarkIsFirstKept ==
    (polls = 1 /\ ~input.err /\ returned.articles # <<>>) =>
        LET w == input.lastItemPerFeed[input.url]
            items == input.items
            newer == {i \in 1..Len(items) :
                         ItemPublished(items[i]).ok /\ ItemPublished(items[i]).t > w}
            first == CHOOSE i \in newer : \A j \in newer : i <= j
        IN  /\ newer # {}
            /\ lastItemPerFeed[input.url] = returned.articles[1].Published
            /\ lastItemPerFeed[input.url] = ItemPublished(items[first]).t
            /\ Len(returned.articles) = Cardinality(newer)

\* A poll that returned two articles with different Published times.
C13_Witness ==
    /\ polls = 1
    /\ ~input.err
    /\ Len(returned.articles) = 2
    /\ returned.articles[1].Published # returned.articles[2].Published

\* C14: a collectFeed call in which fetching or parsing the feed fails returns
\* an error and no articles, and leaves the watermark of every source as it
\* was.
C14_FailedPollChangesNothing ==
    [][(polls' = polls + 1 /\ polled'.err) =>
           /\ returned'.err
           /\ returned'.articles = <<>>
           /\ lastItemPerFeed' = lastItemPerFeed]_vars

\* A failed poll of a source whose watermark an earlier poll had advanced.
C14_Witness ==
    /\ polled.err
    /\ returned.err
    /\ lastItemPerFeed[polled.url] > InitFrom

\* C15: the Feed that feed.New returns has a watermark for each configured
\* URL and for nothing else, every one of them the construction time minus
\* initPull, and its sources are the configured ones in configuration order.
C15_NewSeedsEveryWatermark ==
    (output # NoCall) =>
        LET configured == {input.RssFeed[i] : i \in 1..Len(input.RssFeed)}
        IN  /\ DOMAIN output.lastItemPerFeed = configured
            /\ \A u \in configured :
                   output.lastItemPerFeed[u] = input.now - input.initPull
            /\ output.rssFeeds = input.RssFeed

\* A Feed constructed from two different sources with a positive initPull.
C15_Witness ==
    /\ output # NoCall
    /\ Len(input.RssFeed) = 2
    /\ input.RssFeed[1] # input.RssFeed[2]
    /\ input.initPull > 0
    /\ Cardinality(DOMAIN output.lastItemPerFeed) = 2

\* C16: the consumer receives the articles one poll kept from a source in the
\* order the poll kept them, which is the order of the feed document, and
\* never receives an article of an earlier poll cycle after one of a later
\* cycle.
C16_StreamKeepsOrder ==
    [][(consumerPc = "select" /\ consumerPc' = "classify") =>
           /\ article'.cycle >= article.cycle
           /\ \A b \in Range(articles') :
                  /\ b.cycle >= article'.cycle
                  /\ (b.cycle = article'.cycle /\ b.feed = article'.feed)
                         => b.seq > article'.seq]_vars

\* The consumer has received the second of two articles that one poll kept
\* from one source, in the second poll cycle.
C16_Witness ==
    /\ article.seq = 2
    /\ article.cycle = 2
    /\ consumerPc = "classify"

\* C17: the context of SetupHandler is not cancelled before the first
\* interrupt; the first interrupt cancels it and the process keeps running;
\* the second interrupt ends the process at once through os.Exit(1), whatever
\* the loops are doing.
C17_SecondSignalExits ==
    [][/\ (signals = 0 => ~ctxDone)
       /\ (signals' = 0 => ~ctxDone')
       /\ (signals = 0 /\ signals' = 1) => (ctxDone' /\ proc' = "running")
       /\ (signals = 1 /\ signals' = 2) => proc' = "killed"]_vars

\* The second interrupt ended the process while the consumer was handling an
\* article and fetchFeeds had more to send.
C17_Witness ==
    /\ signals = 2
    /\ ctxDone
    /\ proc = "killed"
    /\ consumerPc = "classify"
    /\ fetcherPc = "send"

\* C18: when config loading, the construction of the LLM client (no API key,
\* a model that does not load), the construction of the classification
\* engine (the categories cannot be encoded) or the construction of the Slack
\* client fails, start returns an error, and neither the consumer loop nor
\* the poll loop is ever started.
C18_StartupFailuresAreFatal ==
    LET Loaded(reply) ==
            /\ ~reply.err
            /\ reply.StatusCode = StatusOK
            /\ reply.decodes
            /\ reply.DoneReason = "load"
        configFails == input.configFile # "valid"
        llmFails ==
            \/ input.client = "openai" /\ input.apiKey = ""
            \/ input.client = "ollama"
                   /\ \E i \in DOMAIN input.replies : ~Loaded(input.replies[i])
            \/ input.client = "other"
        clsFails ==
            /\ input.engine = "embeddings"
            /\ \/ input.client = "ollama"
               \/ input.embeddings.err
               \/ Len(input.embeddings.Data) # Len(categories)
        slackFails == input.slack /\ input.webhook = ""
    IN  (configFails \/ llmFails \/ clsFails \/ slackFails) =>
            /\ consumerPc = "notStarted"
            /\ fetcherPc = "idle"
            /\ output.pc \notin {"consumer", "run"}
            /\ output.pc = "returned" => output.err # <<>>

\* Everything but the Slack client was constructed, reporting.slack is set
\* and no webhook is configured: start returned the error of slack.New.
C18_Witness ==
    /\ output.pc = "returned"
    /\ output.llmClient # <<>>
    /\ output.clsEngine # <<>>
    /\ output.err[1] = "failed to create slack client"
    /\ consumerPc = "notStarted"
    /\ fetcherPc = "idle"

\* C19: with the Ollama client CreateEmbeddings returns the error "not
\* implemented" and no vectors, so the construction of a classification
\* engine of the embeddings strategy on an Ollama client fails: start never
\* holds an engine, and the error it returns ends in "not implemented".
C19_OllamaEmbeddingsFailAtConstruction ==
    (input.client = "ollama" /\ input.engine = "embeddings") =>
        /\ output.clsEngine = <<>>
        /\ output.pc \notin {"slack", "consumer", "run"}
        /\ (output.pc = "returned" /\ output.llmClient # <<>>) =>
               output.err = <<"failed to create classification engine",
                              "failed to get embeddings for categories",
                              "failed to get embeddings for categories",
                              "not implemented">>

\* Both models loaded, the Ollama client was constructed, and start returned
\* because classification.New failed for the embeddings strategy.
C19_Witness ==
    /\ input.client = "ollama"
    /\ input.engine = "embeddings"
    /\ output.llmClient = <<"ollama">>
    /\ output.pc = "returned"
    /\ output.err[Len(output.err)] = "not implemented"

\* C20: ollama.NewClient sends the load requests in the order of the models;
\* it returns a client, and no error, only if every request was answered
\* with status 200 and done reason "load"; otherwise it returns an error and
\* no client, and the request of the first model that failed is the last
\* one it made.
C20_WarmsModelsInOrder ==
    (output # NoCall) =>
        LET n == Len(input.models)
            Loaded(reply) ==
                /\ ~reply.err
                /\ reply.StatusCode = StatusOK
                /\ reply.decodes
                /\ reply.DoneReason = "load"
            failing == {i \in 1..n : ~Loaded(input.replies[i])}
        IN  /\ (output.client # <<>>) <=> (failing = {})
            /\ (output.client = <<>>) <=> (output.err # <<>>)
            /\ output.requested =
                   IF failing = {} THEN n
                   ELSE CHOOSE i \in failing : \A j \in failing : i <= j

\* Two models were given, the first load request was answered with status
\* 200 and another done reason, and NewClient returned an error after that
\* one request.
C20_Witness ==
    /\ output # NoCall
    /\ Len(input.models) = 2
    /\ input.replies[1].StatusCode = StatusOK
    /\ input.replies[1].DoneReason = "stop"
    /\ output.client = <<>>
    /\ output.requested = 1

\* C21: a Classify call that succeeds returns exactly the scored categories
\* whose relevance is the threshold or more, each with the relevance that
\* was computed for it: with the LLM strategy the objects of the completion,
\* with the embeddings strategy ten times the cosine similarity of the
\* article's vector and the category's.
C21_ThresholdFiltering ==
    (output.pc = "done" /\ output.result.outcome = "ok") =>
        LET value == output.result.value
            threshold == input.threshold
        IN  IF input.clsType = "llm"
            THEN LET scores == input.resp.text.scores
                     kept == {i \in 1..Len(scores) : scores[i].Relevance >= threshold}
                 IN  /\ Len(value) = Cardinality(kept)
                     /\ \A i \in kept : scores[i] \in Range(value)
                     /\ \A x \in Range(value) :
                            x \in Range(scores) /\ x.Relevance >= threshold
            ELSE LET cache == output.engine[1].encCategories
                     Rel(name) == RelevanceOf(cosineSimilarity(input.enc.vec, cache[name]))
                     kept == {name \in DOMAIN cache :
                                 ~Rel(name).nan /\ Rel(name).v >= threshold}
                 IN  /\ Len(value) = Cardinality(kept)
                     /\ \A name \in kept :
                            [Category |-> name, Relevance |-> Rel(name)] \in Range(value)
                     /\ \A x \in Range(value) : x.Category \in kept

\* With threshold 8 the LLM scored one category 8 and one 7, and Classify
\* returned one entry.
C21_Witness ==
    /\ output.pc = "done"
    /\ input.clsType = "llm"
    /\ input.threshold = 8 * Unit
    /\ output.result.outcome = "ok"
    /\ Len(input.resp.text.scores) = 2
    /\ input.resp.text.scores[1].Relevance = 8 * Unit
    /\ input.resp.text.scores[2].Relevance = 7 * Unit
    /\ Len(output.result.value) = 1

\* C22: every category in the result of a Classify call that succeeds is a
\* configured category, and no category is in the result twice.
C22_ResultWithinConfiguredCategories ==
    (output.pc = "done" /\ output.result.outcome = "ok") =>
        LET value == output.result.value
        IN  /\ \A x \in Range(value) : x.Category \in Range(input.categories)
            /\ \A i, j \in 1..Len(value) :
                   value[i].Category = value[j].Category => i = j

\* C23: with the LLM strategy, a completion whose text is not the JSON array
\* makes Classify return an error and no category list, whatever part of the
\* text could be read as scores.
C23_UnparsableCompletionIsAnError ==
    (/\ output.pc = "done"
     /\ input.clsType = "llm"
     /\ ~input.tooLong
     /\ input.resp.kind = "text"
     /\ ~input.resp.text.valid) =>
        output.result = [outcome |-> "err", value |-> <<>>]

C23_Witness ==
    /\ output.pc = "done"
    /\ input.clsType = "llm"
    /\ ~input.tooLong
    /\ input.resp.kind = "text"
    /\ ~input.resp.text.valid
    /\ \E i \in 1..Len(input.resp.text.scores) :
           input.resp.text.scores[i].Relevance >= input.threshold
    /\ output.result.outcome = "err"

\* C24: classification.New fills the encoded-category cache, and only for
\* the embeddings strategy, with one vector per configured category name (the
\* vector the provider returned for it); no Classify call, successful or
\* failing, of either strategy changes the cache.
C24_CacheStep ==
    /\ (output.pc = "new" /\ output'.pc = "ready") =>
           LET cache == output'.engine[1].encCategories
               cats == input.categories
           IN  IF input.clsType = "embeddings"
               THEN /\ DOMAIN cache = Range(cats)
                    /\ \A i \in 1..Len(cats) :
                           (\A j \in 1..Len(cats) : cats[j] = cats[i] => j <= i)
                               => cache[cats[i]] = input.catResp.Data[i]
               ELSE cache = <<>>
    /\ output.pc = "ready" =>
           /\ output'.pc = "done"
           /\ output'.engine = output.engine

C24_CachePopulatedOnce == [][C24_CacheStep]_vars

C24_Witness ==
    /\ output.pc = "done"
    /\ input.clsType = "embeddings"
    /\ Cardinality(DOMAIN output.engine[1].encCategories) = 2
    /\ output.result.outcome = "err"

\* The token counts the responses received for a model reported so far
RECURSIVE Reported(_, _)
Reported(log, model) ==
    IF log = <<>> THEN [prompt |-> 0, completion |-> 0]
    ELSE LET e == log[Len(log)]
             before == Reported(SubSeq(log, 1, Len(log) - 1), model)
         IN  IF e.model = model /\ ~e.resp.err
             THEN add(before, [prompt |-> e.resp.PromptTokens,
                               completion |-> e.resp.CompletionTokens])
             ELSE before

\* C25: after any sequence of ChatCompletion and CreateEmbeddings calls on the
\* OpenAI client, the total kept for a model is the sum of the prompt and of the
\* completion token counts of the responses received for it (nothing for a
\* request that failed); the accounting raises no panic, also for a model that
\* modelInputCosts lacks or that was not seen before, and no call fails whose
\* request succeeded with a first choice or with one vector per text.
C25_TotalsAreSumOfReported ==
    /\ \A model \in ChatModels \cup EmbeddingModels :
           Reported(output.log, model) =
               IF model \in DOMAIN output.tokenUsed THEN output.tokenUsed[model]
               ELSE [prompt |-> 0, completion |-> 0]
    /\ output.panic # "nil pointer dereference"
    /\ \A i \in 1..Len(output.log) :
           LET e == output.log[i]
           IN  /\ e.resp.err => e.outcome = "err"
               /\ (/\ ~e.resp.err
                   /\ e.call = "ChatCompletion" => e.resp.Choices > 0
                   /\ e.call = "CreateEmbeddings" =>
                          Len(e.resp.Data) = Len(CostTexts)) => e.outcome = "ok"

C25_Witness ==
    /\ Len(output.log) = 2
    /\ output.log[1].call = "ChatCompletion"
    /\ output.log[2].call = "CreateEmbeddings"
    /\ \A i \in 1..2 : /\ output.log[i].model = "my-model"
                        /\ output.log[i].outcome = "ok"
                        /\ output.log[i].resp.PromptTokens = 1
    /\ output.tokenUsed["my-model"].prompt = 2

\* The positions of the entries of the document that are newer than the seed
\* of the watermark, in feed order
RECURSIVE NewerPositions(_, _)
NewerPositions(items, n) ==
    IF n = 0 THEN <<>>
    ELSE LET before == NewerPositions(items, n - 1)
         IN  IF items[n].Published > InitFrom THEN Append(before, n) ELSE before

\* C26: an entry newer than the watermark whose page cannot be fetched
\* (network error, status other than 200) or read (extraction fails, content
\* of length zero) is still returned by the poll, with the Content the feed
\* gave it, and so is every newer entry after it.
C26_EnrichmentIsBestEffort ==
    output # NoCall =>
        LET newer == NewerPositions(input.items, Len(input.items))
        IN  /\ Len(output.articles) = Len(newer)
            /\ \A k \in 1..Len(newer) :
                   LET item == input.items[newer[k]]
                   IN  /\ output.articles[k].Published = item.Published
                       /\ item.page # "readable" =>
                              output.articles[k].Content = item.Content

C26_Witness ==
    /\ output # NoCall
    /\ Len(input.items) = 2
    /\ input.items[1].page = "unreadable"
    /\ input.items[1].Content = "summary"
    /\ input.items[2].page = "readable"
    /\ Len(output.articles) = 2
    /\ output.articles[1].Content = "summary"
    /\ output.articles[2].Content = TextContent

\* C27: an entry newer than the watermark whose Content is identical to its
\* Description and whose page cannot be fetched is returned with an empty
\* Content.
C27_IdenticalContentIsCleared ==
    output # NoCall =>
        LET newer == NewerPositions(input.items, Len(input.items))
        IN  \A k \in 1..Len(newer) :
                LET item == input.items[newer[k]]
                IN  (/\ k <= Len(output.articles)
                     /\ item.Content = item.Description
                     /\ item.page \in {"network error", "status 404"}) =>
                        output.articles[k].Content = ""

\* C28: a CreateEmbeddings call on the OpenAI client that succeeds returns one
\* vector per text, the i-th being the vector of the i-th text; when the
\* response holds another number of vectors than there are texts (or the
\* request failed) the call returns an error and no vector.
C28_OneVectorPerText ==
    output # NoCall =>
        IF ~input.resp.err /\ Len(input.resp.Data) = Len(input.texts)
        THEN /\ output.err = <<>>
             /\ Len(output.embeddings) = Len(input.texts)
             /\ \A i \in 1..Len(input.texts) :
                    output.embeddings[i] = EmbeddingOf(input.texts[i])
        ELSE /\ output.err # <<>>
             /\ output.embeddings = <<>>

C28_Witness ==
    /\ output # NoCall
    /\ input.texts = <<"b", "a", "c">>
    /\ output.err = <<>>
    /\ output.embeddings = <<EmbeddingOf("b"), EmbeddingOf("a"), EmbeddingOf("c")>>

Min(a, b) == IF a < b THEN a ELSE b

\* C29: with chunkSize > overlap >= 0 and a text of n characters, chunkText
\* returns, for i = 0, 1, ... while i * (chunkSize - overlap) < n, the window
\* that starts at i * (chunkSize - overlap) and is min(chunkSize, n - start)
\* long, in this order and nothing else; every character is in a window, no
\* window is longer than chunkSize, and two consecutive windows share exactly
\* `overlap` characters unless the first of them already ends with the text
\* (the second then lies wholly within it).
C29_ChunkWindows ==
    output # NoCall =>
        LET n == Len(input.text)
            step == input.chunkSize - input.overlap
            chunks == output.chunks
            count == Cardinality({i \in 0..n : i * step < n})
            Shared(k) == Cardinality(Range(chunks[k]) \cap Range(chunks[k + 1]))
        IN  /\ Len(chunks) = count
            /\ \A k \in 1..count :
                   LET start == (k - 1) * step
                   IN  chunks[k] = SubSeq(input.text, start + 1,
                                          start + Min(input.chunkSize, n - start))
            /\ \A c \in 1..n : \E k \in 1..Len(chunks) : c \in Range(chunks[k])
            /\ \A k \in 1..Len(chunks) : Len(chunks[k]) <= input.chunkSize
            /\ \A k \in 1..(Len(chunks) - 1) :
                   IF (k - 1) * step + input.chunkSize <= n
                   THEN Shared(k) = input.overlap
                   ELSE Shared(k) = Len(chunks[k + 1])

C29_Witness ==
    /\ output # NoCall
    /\ Len(input.text) = 5
    /\ input.chunkSize = 3
    /\ input.overlap = 1
    /\ output.chunks = <<<<1, 2, 3>>, <<3, 4, 5>>, <<5>>>>

\* Some vector of the list has another dimension than the first.
Unequal(embeddings) ==
    \E k \in 1..Len(embeddings) : Len(embeddings[k]) # Len(embeddings[1])

\* C30: averageEmbeddings returns an error and no vector for an empty list
\* and for a list in which a vector has another dimension than the first;
\* EncodeArticle returns that error, so that Classify on a long article whose
\* chunk vectors have unequal dimensions returns an error and scores nothing.
C30_UnequalDimensionsAreAnError ==
    /\ (output.averaged /\ (input.resp.Data = <<>> \/ Unequal(input.resp.Data))) =>
           /\ output.avgErr # <<>>
           /\ output.avg = <<>>
    /\ (/\ output.classified
        /\ input.long
        /\ ~input.resp.err
        /\ Len(input.resp.Data) = input.nChunks
        /\ Unequal(input.resp.Data)) =>
           /\ output.enc = [vec |-> <<>>,
                            err |-> <<"embeddings have inconsistent dimensions">>]
           /\ output.result = [outcome |-> "err", value |-> <<>>]

C30_Witness ==
    /\ output.averaged
    /\ output.classified
    /\ input.long
    /\ input.nChunks = 3
    /\ input.resp.Data = <<<<36, 48>>, <<36, 48>>, <<12>>>>
    /\ output.avgErr = <<"embeddings have inconsistent dimensions">>
    /\ output.result.outcome = "err"

\* C31: averageEmbeddings on a list of one vector returns that vector, element
\* by element, and no error; so EncodeArticle returns the same vector for a
\* text embedded as one chunk and averaged as for a text embedded directly.
C31_SingleChunkAverageIsIdentity ==
    (~input.resp.err /\ Len(input.resp.Data) = 1) =>
        /\ output.averaged =>
               /\ output.avgErr = <<>>
               /\ Len(output.avg) = Len(input.resp.Data[1])
               /\ \A i \in 1..Len(output.avg) : output.avg[i] = input.resp.Data[1][i]
        /\ (output.classified /\ (input.long => input.nChunks = 1)) =>
               output.enc = [vec |-> input.resp.Data[1], err |-> <<>>]

C31_Witness ==
    /\ output.averaged
    /\ output.classified
    /\ input.long
    /\ input.nChunks = 1
    /\ input.resp.Data = <<<<36, 48>>>>
    /\ output.avg = <<36, 48>>
    /\ output.enc.vec = <<36, 48>>

\* C32: the single consumer takes an article from the stream, and starts to
\* classify it, only from its select, that is after the classification,
\* summarization and reporting of the article before it completed or failed;
\* while it handles an article no other article leaves the stream.
C32_ConsumerStep ==
    /\ (consumerPc' = "classify" /\ consumerPc # "classify") => consumerPc = "select"
    /\ article' # article =>
           /\ consumerPc = "select"
           /\ consumerPc' = "classify"
           /\ articles # <<>>
           /\ article' = Head(articles)
    /\ consumerPc \in {"classify", "summarize"} => owed \subseteq owed'

C32_OneArticleAtATime == [][C32_ConsumerStep]_vars

\* The consumer handles the article of the second source after it handled the
\* one of the first source in the same cycle.
C32_Witness ==
    /\ consumerPc = "summarize"
    /\ article.feed = rssFeeds[2]
    /\ article.cycle = 1
    /\ lastItemPerFeed[rssFeeds[1]] > InitFrom
    /\ owed = {}

\* The goroutine that owns a structure once the goroutines run
Owner(on) == IF on = "lastItemPerFeed" THEN "fetcher" ELSE "consumer"

\* C33: main touches the watermark map and the token totals only while no
\* other goroutine was launched (feed.New, classification.New); every other
\* access to the watermark map is by fetchFeeds and every other access to the
\* token totals is by the consumer, so no structure is touched by two
\* goroutines that run at the same time.
C33_SingleOwner ==
    \A a \in output.accesses :
        IF a.by = "main" THEN a.started = {}
        ELSE a.by = Owner(a.on) /\ a.by \in a.started

C33_Witness ==
    /\ [on |-> "lastItemPerFeed", by |-> "main", started |-> {}] \in output.accesses
    /\ [on |-> "tokenUsed", by |-> "main", started |-> {}] \in output.accesses
    /\ [on |-> "lastItemPerFeed", by |-> "fetcher",
        started |-> {"consumer", "fetcher"}] \in output.accesses
    /\ [on |-> "tokenUsed", by |-> "consumer",
        started |-> {"consumer", "fetcher"}] \in output.accesses
    /\ output.tokenUsed["gpt-4o-mini"].prompt = 2 * MaxTokens

\* C34: after the cancellation the consumer calls wg.Done at most once: no
\* second call finds the WaitGroup counter at zero (which would make it
\* negative and panic), however the consumer and the return of wg.Wait in
\* main interleave.
C34_DoneAtMostOnce == panicCause # "waitgroup"

\* The completion of the classification is a JSON array that scores a
\* category at or above the threshold.
Matched ==
    /\ ~input.tooLong
    /\ input.resp.kind = "text"
    /\ input.resp.text.valid
    /\ \E i \in 1..Len(input.resp.text.scores) :
           input.resp.text.scores[i].Relevance >= Threshold

\* C35: Summarize is called for an article only after its classification
\* succeeded with a category at or above the threshold; the article is printed
\* or sent to Slack only after Summarize succeeded; an article without a
\* matching category is neither summarized nor reported; and after a failed
\* Slack delivery the consumer is back at its select.
C35_SummarizeAndReportInOrder ==
    /\ output.summarized => (output.classified /\ Matched)
    /\ (output.printed \/ output.slackSent) =>
           /\ output.summarized
           /\ ~input.sumTooLong
           /\ input.sumResp.kind = "text"
    /\ (output.classified /\ ~Matched) =>
           /\ output.pc # "summarize"
           /\ ~output.summarized
           /\ ~output.printed
           /\ ~output.slackSent
    /\ output.slackLogged => output.pc = "select"

C35_Witness ==
    /\ Matched
    /\ output.summarized
    /\ input.stdout
    /\ output.printed
    /\ input.slack = "fails"
    /\ output.slackSent
    /\ output.slackLogged
    /\ output.pc = "select"

\* C36: a collectFeed call for one source, failed or successful, leaves the
\* watermark of every other source as it was, and the watermark map has the
\* same keys after the call as before it.
C36_OtherWatermarksUntouched ==
    polls = 1 =>
        /\ DOMAIN lastItemPerFeed = DOMAIN input.lastItemPerFeed
        /\ \A u \in Urls \ {input.url} :
               lastItemPerFeed[u] = input.lastItemPerFeed[u]

C36_Witness ==
    /\ polls = 1
    /\ ~input.err
    /\ lastItemPerFeed[input.url] > input.lastItemPerFeed[input.url]
    /\ \E u \in Urls \ {input.url} :
           /\ lastItemPerFeed[u] = input.lastItemPerFeed[u]
           /\ lastItemPerFeed[u] # lastItemPerFeed[input.url]

\* C37: with chunkSize > overlap >= 0 chunkText returns for every text, with
\* the windows of chunkText (none for the empty text); with chunkSize <=
\* overlap and a text that is not empty the start position never reaches the
\* end of the text and chunkText never returns.
C37_ChunkTextTerminates ==
    /\ (input.chunkSize > input.overlap) => <>(output.pc = "done")
    /\ [](output.pc = "done" =>
             /\ output.chunks = chunkText(input.text, input.chunkSize, input.overlap)
             /\ (input.text = <<>> => output.chunks = <<>>))
    /\ []((input.chunkSize <= input.overlap /\ input.text # <<>>) =>
             (output.pc # "done" /\ output.start < Len(input.text)))

C37_Witness ==
    /\ output.pc = "done"
    /\ input.overlap > 0
    /\ Len(input.text) = MaxLen
    /\ Len(output.chunks) >= 3
\* C38: with an engine type that is neither "llm" nor "embeddings",
\* classification.New succeeds without a request to the provider, and every
\* Classify call after it returns the "unknown classification engine type"
\* error, again without a request, so that every article is skipped: none is
\* summarized.
C38_UnknownEngineTypeSkipsAll ==
    (input.clsType \notin {"llm", "embeddings"}) =>
        /\ output.pc \in {"new", "select"}
        /\ output.contacts = 0
        /\ output.skipped = output.calls
        /\ output.summarized = 0
        /\ output.pc = "select" => output.engine # <<>>
        /\ output.calls > 0 =>
               output.err = <<"unknown classification engine type">>

C38_Witness ==
    /\ input.clsType = "bert"
    /\ output.pc = "select"
    /\ output.calls = MaxCalls
    /\ output.skipped = MaxCalls

\* C39: a Classify call of the LLM strategy whose system prompt and user
\* prompt together are longer than llmInputMaxTextLength returns an error
\* without a request to the provider: the classification of that article fails,
\* the number of requests sent stays what it was and so does the token
\* accumulator.
C39_TooLongStep ==
    (output'.calls = output.calls + 1 /\ output'.len > llmInputMaxTextLength) =>
        /\ output'.result.outcome = "err"
        /\ output'.pc = "select"
        /\ output'.requests = output.requests
        /\ output'.tokenUsed = output.tokenUsed

C39_TooLongInputIsNotSent == [][C39_TooLongStep]_vars

C39_Witness ==
    /\ output.calls = MaxCalls
    /\ output.len = llmInputMaxTextLength + 1
    /\ output.result.outcome = "err"
    /\ output.requests = 1
    /\ output.tokenUsed # <<>>
    /\ Len(input.categories) = MaxCategories


====
